---- MODULE Spec2Model ----
(***************************************************************************)
(* Model of app.py: the survey tool's task pools (build_tasks), the        *)
(* per-rater plan sampler (sample_plan_for_rater), the session cursor      *)
(* (start_module, start_full_session, full_next, mod_a/b/c, submit_a/b/c)  *)
(* and the in-memory seen history (mark_seen_a/b/c, admin_clear_seen).     *)
(***************************************************************************)
EXTENDS Integers, Sequences, FiniteSets, TLC

\* ------------------------------------------------------------------------
\* Configuration (config.yaml)
\* ------------------------------------------------------------------------

\* PROVIDER_DIRS.keys(), in the order of the configuration file
Providers == <<"chatgpt", "google", "stability", "bfl">>

ProviderSet == {Providers[i] : i \in 1..Len(Providers)}

\* the four provider names that mod_b and submit_b spell out
RankedProviders == <<"chatgpt", "google", "stability", "bfl">>

SEED_LABELS == <<11, 23>>

\* module_items of the configuration: the target size of each module's plan
ItemsA == 1
ItemsB == 1
ItemsC == 1

MODULE_ITEMS == [A |-> ItemsA, B |-> ItemsB, C |-> ItemsC]

STATUS_OK_ONLY == TRUE

Modules == {"A", "B", "C"}

\* the names of the templates that ensure_assets writes
TEMPLATES == {"base.html", "home.html", "onboarding.html", "module_a.html",
              "module_b.html", "module_c.html", "thanks.html",
              "admin_login.html", "admin.html"}

\* ------------------------------------------------------------------------
\* Sequence helpers
\* ------------------------------------------------------------------------

Range(s) == {s[i] : i \in 1..Len(s)}

Min(a, b) == IF a < b THEN a ELSE b

RECURSIVE SelectIdx(_, _, _)
\* the subsequence of s at the positions of keep, in order
SelectIdx(s, keep, i) ==
    IF i > Len(s) THEN <<>>
    ELSE (IF i \in keep THEN <<s[i]>> ELSE <<>>) \o SelectIdx(s, keep, i + 1)

RECURSIVE Flatten(_, _)
\* the concatenation of ss[i..]
Flatten(ss, i) == IF i > Len(ss) THEN <<>> ELSE ss[i] \o Flatten(ss, i + 1)

\* the sequences of k pairwise distinct positions of 1..n
InjSeqs(n, k) ==
    {q \in [1..k -> 1..n] : \A i, j \in 1..k : i # j => q[i] # q[j]}

\* ------------------------------------------------------------------------
\* The disk: per provider, the manifests directory, its runs, their rows
\* ------------------------------------------------------------------------

\* one row of a manifest.csv, with whether its resolved image file exists
Raw(status, cat, prompt, seed, img, exists, utc) ==
    [status |-> status, category_id |-> cat, prompt_id |-> prompt, seed |-> seed,
     image_path |-> img, file_exists |-> exists, request_completed_utc |-> utc,
     prompt_text |-> "text of " \o prompt]

Run(name, csv, rows) == [name |-> name, has_csv |-> csv, rows |-> rows]

Dir(exists, runs) == [has_manifests |-> exists, runs |-> runs]

OneRun(rows) == Dir(TRUE, {Run("run-2", TRUE, rows)})

\* every provider has (c1, q1, 11); chatgpt has seed 23 too
DiskBase ==
    [p \in ProviderSet |->
        IF p = "chatgpt"
        THEN Dir(TRUE, {Run("run-1", TRUE, <<>>),
                        Run("run-2", TRUE,
                            <<Raw("ok", "c1", "q1", 11, "chatgpt/a11", TRUE, "t1"),
                              Raw("ok", "c1", "q1", 23, "chatgpt/a23", TRUE, "t1")>>)})
        ELSE OneRun(<<Raw("ok", "c1", "q1", 11, p \o "/a11", TRUE, "t1")>>)]

\* chatgpt generated (c1, q1, 11) again: a second row with the same key
DiskRegen ==
    [DiskBase EXCEPT !["chatgpt"] =
        OneRun(<<Raw("ok", "c1", "q1", 11, "chatgpt/a11", TRUE, "t1"),
                 Raw("ok", "c1", "q1", 23, "chatgpt/a23", TRUE, "t1"),
                 Raw("ok", "c1", "q1", 11, "chatgpt/b11", TRUE, "t2")>>)]

\* nothing usable: no manifests directory, no run, no manifest.csv in the
\* latest run, a failed row and a row whose image file is gone
DiskBroken ==
    [p \in ProviderSet |->
        CASE p = "chatgpt" -> Dir(FALSE, {})
          [] p = "google" -> Dir(TRUE, {})
          [] p = "stability" ->
                Dir(TRUE, {Run("run-1", TRUE,
                               <<Raw("ok", "c1", "q1", 11, "stability/a11", TRUE, "t1")>>),
                           Run("run-2", FALSE, <<>>)})
          [] OTHER ->
                OneRun(<<Raw("failed", "c1", "q1", 11, "bfl/a11", TRUE, "t1"),
                         Raw("ok", "c1", "q1", 23, "bfl/a23", FALSE, "t1")>>)]

Disks == <<DiskBase, DiskRegen, DiskBroken>>

\* the longest manifest.csv, in rows, that a single call is followed on
MaxRows == 2

\* the rows such a manifest.csv of provider p is made of: two generations of
\* (c1, q1, 11), a failed one, one whose image file is gone, and seed 23
RawRows(p) ==
    {Raw("ok", "c1", "q1", 11, p \o "/a11", TRUE, "t1"),
     Raw("ok", "c1", "q1", 11, p \o "/b11", TRUE, "t2"),
     Raw("failed", "c1", "q1", 11, p \o "/f11", TRUE, "t2"),
     Raw("ok", "c1", "q1", 11, p \o "/m11", FALSE, "t2"),
     Raw("ok", "c1", "q1", 23, p \o "/a23", TRUE, "t1")}

RowSeqs(p) == UNION {[1..n -> RawRows(p)] : n \in 0..MaxRows}

\* a run directory of that name: none, one without manifest.csv, or one
\* with a manifest.csv
RunChoices(p, name) ==
    {{}, {Run(name, FALSE, <<>>)}} \cup {{Run(name, TRUE, rows)} : rows \in RowSeqs(p)}

\* the states a provider directory can be in
Dirs(p) ==
    {Dir(FALSE, {})} \cup
    {Dir(TRUE, a \cup b) : a \in RunChoices(p, "run-1"), b \in RunChoices(p, "run-2")}

\* ------------------------------------------------------------------------
\* Manifest loading and pool construction
\* ------------------------------------------------------------------------

\* the longest image_path, in segments, that is normalized
MaxSegs == 5

\* the segments an image_path is written with
Segments == {"C:", "old", "chatgpt", "images", "foo.png"}

\* the image_path strings of a manifest: the separator the path is written
\* with, whether it begins with a separator, and its segments
ImagePaths ==
    {[sep |-> sep, abs |-> abs, segs |-> segs] :
        sep \in {"/", "\\"}, abs \in BOOLEAN,
        segs \in UNION {[1..n -> Segments] : n \in 0..MaxSegs}}

\* the provider root /data/chatgpt
ProviderRoot == <<"data", "chatgpt">>

\* str.lower() of a segment
Lower(seg) == IF seg = "C:" THEN "c:" ELSE seg

\* s.lower().find("/" + name + "/"): the first segment that spells name and
\* has a separator on both sides (0 if there is none)
FindSegment(path, name) ==
    LET at == {i \in 1..Len(path.segs) :
                  /\ Lower(path.segs[i]) = name
                  /\ i > 1 \/ path.abs
                  /\ i < Len(path.segs)}
    IN  IF at = {} THEN 0 ELSE CHOOSE i \in at : \A j \in at : i <= j

\* _normalize_image_path(path_str, provider_root), as the segments of the
\* resulting path.  Both separators are read as "/" by replace.
_normalize_image_path(path, root) ==
    LET prov == Lower(root[Len(root)])
        m1 == FindSegment(path, prov)
        m2 == FindSegment(path, "images")
        n == Len(path.segs)
    IN  IF m1 # 0 THEN root \o SubSeq(path.segs, m1 + 1, n)
        ELSE IF m2 # 0 THEN root \o SubSeq(path.segs, m2, n)
        ELSE IF ~path.abs THEN root \o path.segs
        ELSE root \o <<"images">> \o (IF n = 0 THEN <<>> ELSE <<path.segs[n]>>)

\* ManifestRow, as read_latest_manifest builds it from a csv row
ManifestRow(prov, r) ==
    [provider |-> prov, category_id |-> r.category_id, prompt_id |-> r.prompt_id,
     seed_label |-> r.seed, image_path |-> r.image_path,
     prompt_text |-> r.prompt_text, status |-> r.status,
     completed_utc |-> r.request_completed_utc]

\* a loader that takes the run directory whose name sorts first
RunOrderReversed(name) == CASE name = "run-1" -> 2 [] name = "run-2" -> 1 [] OTHER -> 0

\* run directory names are compared as strings; the model's names differ in
\* their last character only
RunOrder(name) == CASE name = "run-1" -> 1 [] name = "run-2" -> 2 [] OTHER -> 0

\* an index that never replaces the row it kept first
UtcOrderFlat(utc) == 0

\* timestamps are compared as strings
UtcOrder(utc) == CASE utc = "t1" -> 1 [] utc = "t2" -> 2 [] OTHER -> 0

\* runs[0]: the run directory whose name sorts last
LatestRun(dir) ==
    CHOOSE x \in dir.runs : \A y \in dir.runs : RunOrder(y.name) <= RunOrder(x.name)

\* a loader that retains every row
RowAny(r) == TRUE

\* the rows read_latest_manifest retains: status ok when STATUS_OK_ONLY, and
\* the resolved image file exists
RowKept(r) ==
    /\ STATUS_OK_ONLY => r.status = "ok"
    /\ r.file_exists

\* the call gets as far as open(csv_path)
OpensCsv(dir) == dir.has_manifests /\ dir.runs # {} /\ LatestRun(dir).has_csv

read_latest_manifest(prov, dir) ==
    IF ~dir.has_manifests THEN <<>>
    ELSE IF dir.runs = {} THEN <<>>
    ELSE LET latest == LatestRun(dir)
         IN  IF ~latest.has_csv THEN <<>>
             ELSE LET kept == {i \in 1..Len(latest.rows) : RowKept(latest.rows[i])}
                      rows == [i \in 1..Len(latest.rows) |->
                                  ManifestRow(prov, latest.rows[i])]
                  IN  SelectIdx(rows, kept, 1)

\* per_provider of build_tasks: the rows read for each provider
PerProvider(d) == [p \in ProviderSet |-> read_latest_manifest(p, d[p])]

BKey(r) == <<r.category_id, r.prompt_id, r.seed_label>>

RECURSIVE LatestByKey(_, _, _)
\* idx[prov] of build_tasks: per key the row kept by the scan, which replaces
\* the kept row only by a strictly greater completed_utc
LatestByKey(rows, i, d) ==
    IF i > Len(rows) THEN d
    ELSE LET r == rows[i]
             key == BKey(r)
             replace == \/ key \notin DOMAIN d
                        \/ UtcOrder(r.completed_utc) > UtcOrder(d[key].completed_utc)
         IN  LatestByKey(rows, i + 1,
                 IF replace
                 THEN [k \in DOMAIN d \cup {key} |-> IF k = key THEN r ELSE d[k]]
                 ELSE d)

EmptyMap == [k \in {} |-> 0]

ProviderIndex(per) == [p \in ProviderSet |-> LatestByKey(per[p], 1, EmptyMap)]

\* a build that finds no key common to the providers
KeysNone(idx) == {}

\* keys_all: the keys every configured provider has
KeysAll(idx) == {k \in UNION {DOMAIN idx[p] : p \in ProviderSet} :
                    \A p \in ProviderSet : k \in DOMAIN idx[p]}

BuildB(per) ==
    LET idx == ProviderIndex(per)
    IN  [k \in KeysAll(idx) |-> [p \in ProviderSet |-> idx[p][k]]]

\* group[(cat, prompt)][seed] of build_tasks: the last row of the manifest
\* with that seed
LastWithSeed(rows, cat, prompt, s) ==
    LET at == {i \in 1..Len(rows) : /\ rows[i].category_id = cat
                                    /\ rows[i].prompt_id = prompt
                                    /\ rows[i].seed_label = s}
    IN  rows[CHOOSE i \in at : \A j \in at : j <= i]

\* the (cat, prompt) groups of a provider, in the order of first appearance
RECURSIVE Groups(_, _, _)
Groups(rows, i, acc) ==
    IF i > Len(rows) THEN acc
    ELSE LET gp == <<rows[i].category_id, rows[i].prompt_id>>
         IN  Groups(rows, i + 1, IF gp \in Range(acc) THEN acc ELSE Append(acc, gp))

\* a build that emits every group, complete or not, in manifest order
ProviderCSetsAny(prov, rows) ==
    LET gps == Groups(rows, 1, <<>>)
    IN  [i \in 1..Len(gps) |->
            <<prov, gps[i][1], gps[i][2],
              SelectIdx(rows, {n \in 1..Len(rows) :
                                  /\ rows[n].category_id = gps[i][1]
                                  /\ rows[n].prompt_id = gps[i][2]}, 1)>>]

\* the C sets one provider contributes
ProviderCSets(prov, rows) ==
    LET gps == Groups(rows, 1, <<>>)
        full == {i \in 1..Len(gps) :
                    \A j \in 1..Len(SEED_LABELS) :
                        \E n \in 1..Len(rows) :
                            /\ rows[n].category_id = gps[i][1]
                            /\ rows[n].prompt_id = gps[i][2]
                            /\ rows[n].seed_label = SEED_LABELS[j]}
        sets == [i \in 1..Len(gps) |->
                    IF i \in full
                    THEN <<prov, gps[i][1], gps[i][2],
                           [j \in 1..Len(SEED_LABELS) |->
                               LastWithSeed(rows, gps[i][1], gps[i][2], SEED_LABELS[j])]>>
                    ELSE <<>>]
    IN  SelectIdx(sets, full, 1)

BuildA(per) == Flatten([i \in 1..Len(Providers) |-> per[Providers[i]]], 1)

BuildC(per) ==
    Flatten([i \in 1..Len(Providers) |-> ProviderCSets(Providers[i], per[Providers[i]])], 1)

\* the three pools a complete build_tasks leaves, from the disk d
Pools(d) ==
    LET per == PerProvider(d)
    IN  [A |-> BuildA(per), B |-> BuildB(per), C |-> BuildC(per)]

\* ------------------------------------------------------------------------
\* Keys, sessions, forms
\* ------------------------------------------------------------------------

\* the rater ids known to the process (session["rater_id"])
Raters == {"r1", "r2"}

\* the rater whose browser requests are followed
Visitors == {"r1"}

\* the key of mark_seen_a and of the filter of sample_plan_for_rater
AKey(m) == <<m.provider, m.category_id, m.prompt_id, m.seed_label>>

\* the key of a C set (prov, cat, prompt, rows)
CKey(c) == <<c[1], c[2], c[3]>>

ZeroIdx == [A |-> 0, B |-> 0, C |-> 0]

EmptyPlan == [A |-> <<>>, B |-> <<>>, C |-> <<>>]

\* a session cookie: the keys it holds and their values (a value whose key
\* is absent is kept at its default)
NewSession == [keys |-> {}, plan |-> EmptyPlan, plan_idx |-> ZeroIdx,
               plan_sizes |-> ZeroIdx]

\* a page's form: its hidden payload, the providers of its rank fields, and
\* the task the page was rendered for
NoForm == [kind |-> "none", provider |-> "", category_id |-> "", prompt_id |-> "",
           seed_label |-> 0, tiles |-> {}, task |-> <<>>]

NoShown == [task |-> <<>>, images |-> <<>>, prompt_text |-> ""]

NewBrowser == [loc |-> "none", form |-> NoForm, shown |-> NoShown]

\* slim_asdict_mr: the row as stored in the cookie, its prompt text dropped
slim_asdict_mr(m) == [m EXCEPT !.prompt_text = ""]

VARIABLES
    disk,           \* which of Disks the file system holds
    initialized,    \* _initialized
    ALL_A_IMAGES,   \* the flat pool: a list of rows
    B_SETS,         \* key -> provider -> row
    C_SETS,         \* a list of (prov, cat, prompt, rows)
    SEEN_A, SEEN_B, SEEN_C,     \* rater -> set of keys
    session,        \* rater -> the rater's session cookie
    browser,        \* rater -> the last response the rater's browser got
    responses_a, responses_b, responses_c,   \* the rows of the three tables
    ev,             \* the request handled by the last step
    served,         \* rater -> module -> the tasks answered under the current plan
    earlier,        \* rater -> module -> the tasks answered under earlier plans
    frozen,         \* rater -> module -> the images of the plan when drawn
    chain,          \* rater -> follows a full session by redirects alone
    log,            \* rater -> what the chained full session presented
    bt,             \* the build_tasks call in progress, if any
    before,         \* the pools when that build_tasks call began
    rebuilds,       \* the number of reloads begun so far
    lock,           \* _seen_lock: the request thread that holds it, or ""
    th,             \* request thread -> where it is in a seen-history call
    seenlog,        \* the mark_seen calls that returned, and whether a clear began
    cfgfile,        \* what config.yaml holds now
    call,           \* the manifest-loading call made, its argument and its result
    tabs,           \* browser tab -> its request in flight, with the cookie it carries
    boot,           \* _init_lock, and where each request thread is in its first request
    requests        \* the number of rater requests handled so far

poolVars == <<ALL_A_IMAGES, B_SETS, C_SETS>>
seenVars == <<SEEN_A, SEEN_B, SEEN_C>>
dbVars == <<responses_a, responses_b, responses_c>>
histVars == <<served, earlier, frozen, chain, log>>
buildVars == <<bt, before, rebuilds>>
lockVars == <<lock, th, seenlog>>
extVars == <<cfgfile, call, tabs, boot>>

vars == <<disk, initialized, poolVars, seenVars, session, browser, dbVars, ev,
          histVars, buildVars, lockVars, extVars, requests>>

CurPools == [A |-> ALL_A_IMAGES, B |-> B_SETS, C |-> C_SETS]

NoEvent == [op |-> "none", rater |-> "", out |-> "", drew |-> FALSE]

Event(op, r, out, drew) == [op |-> op, rater |-> r, out |-> out, drew |-> drew]

NoRows == [p \in ProviderSet |-> <<>>]

\* the local state of build_tasks: where it is, the next provider to read,
\* per_provider, and the B keys and C sets it has still to store
BtIdle == [pc |-> "idle", i |-> 0, per |-> NoRows, keys |-> {}, n |-> 0]

\* the request threads followed inside the seen-history calls
Threads == {"t1", "t2"}

\* a thread outside every seen-history call
ThIdle == [pc |-> "idle", op |-> "", module |-> "", rater |-> "", key |-> <<>>,
           tmp |-> {}, snap |-> <<>>]

NoSeenLog == [marked |-> {}, cleared |-> FALSE]

\* config.yaml as the process read it when it started: CFG
StartupConfig == [seed_labels |-> SEED_LABELS]

\* no manifest-loading call made yet
NoCall == [fn |-> "", arg |-> <<>>, res |-> <<>>, raised |-> FALSE]

\* the tabs a rater's browser has open
Tabs == {"tab1", "tab2"}

\* a tab with no request in flight
TabIdle == [pc |-> "idle", rater |-> "", cookie |-> <<>>, form |-> <<>>, sent |-> 0]

\* no request has arrived: _init_lock is free, init_db and build_tasks were
\* never entered, and no thread has read the pools
NoBoot == [lock |-> "", pc |-> [t \in Threads |-> "idle"], entered |-> 0, raised |-> 0,
           read |-> [t \in Threads |-> <<>>]]

\* the state at process start, before the first request; full says whether
\* the raters of this behaviour only follow a full session
Start(full) ==
    /\ disk \in 1..Len(Disks)
    /\ initialized = FALSE
    /\ ALL_A_IMAGES = <<>>
    /\ B_SETS = EmptyMap
    /\ C_SETS = <<>>
    /\ SEEN_A = [r \in Raters |-> {}]
    /\ SEEN_B = [r \in Raters |-> {}]
    /\ SEEN_C = [r \in Raters |-> {}]
    /\ session = [r \in Raters |-> NewSession]
    /\ browser = [r \in Raters |-> NewBrowser]
    /\ responses_a = {}
    /\ responses_b = {}
    /\ responses_c = {}
    /\ ev = NoEvent
    /\ served = [r \in Raters |-> [m \in Modules |-> {}]]
    /\ earlier = [r \in Raters |-> [m \in Modules |-> {}]]
    /\ frozen = [r \in Raters |-> EmptyPlan]
    /\ chain = [r \in Raters |-> full]
    /\ log = [r \in Raters |-> <<>>]
    /\ bt = BtIdle
    /\ before = CurPools
    /\ rebuilds = 0
    /\ lock = ""
    /\ th = [t \in Threads |-> ThIdle]
    /\ seenlog = NoSeenLog
    /\ cfgfile = StartupConfig
    /\ call = NoCall
    /\ tabs = [t \in Tabs |-> TabIdle]
    /\ boot = NoBoot
    /\ requests = 0

Init == Start(FALSE)

\* _init_once, run by the first request under _init_lock: the initial
\* build_tasks, which no other request overlaps
InitOnce ==
    /\ ~initialized
    /\ initialized' = TRUE
    /\ ALL_A_IMAGES' = Pools(Disks[disk]).A
    /\ B_SETS' = Pools(Disks[disk]).B
    /\ C_SETS' = Pools(Disks[disk]).C
    /\ ev' = Event("_init_once", "", "ok", FALSE)
    /\ UNCHANGED <<disk, seenVars, session, browser, dbVars, histVars, buildVars, lockVars, extVars>>

\* ------------------------------------------------------------------------
\* Plan sampler
\* ------------------------------------------------------------------------

\* a sampler that does not filter module A by the seen set
AllA(r) == ALL_A_IMAGES

\* pool_a, pool_b_keys, pool_c of sample_plan_for_rater: the rater's unseen
\* candidates in the current pools
UnseenA(r) ==
    SelectIdx(ALL_A_IMAGES,
              {i \in 1..Len(ALL_A_IMAGES) : AKey(ALL_A_IMAGES[i]) \notin SEEN_A[r]}, 1)

UnseenB(r) == {k \in DOMAIN B_SETS : k \notin SEEN_B[r]}

UnseenC(r) ==
    SelectIdx(C_SETS, {i \in 1..Len(C_SETS) : CKey(C_SETS[i]) \notin SEEN_C[r]}, 1)

\* a sampler that takes every candidate, whatever the configured size
PlanLenAll(tgt, n) == n

\* kA, kB, kC
PlanLen(tgt, n) == Min(tgt, n)

\* random.sample(pool, k): any k elements at distinct positions, in any order
SampleSeq(pool, k) == {[i \in 1..k |-> pool[q[i]]] : q \in InjSeqs(Len(pool), k)}

\* random.shuffle(keys) and the prefix of length k
ShufflePrefix(keys, k) ==
    {q \in [1..k -> keys] : \A i, j \in 1..k : i # j => q[i] # q[j]}

\* the plans sample_plan_for_rater can draw for r now
Plans(r) ==
    {[A |-> a, B |-> b, C |-> c] :
        a \in SampleSeq(UnseenA(r), PlanLen(MODULE_ITEMS.A, Len(UnseenA(r)))),
        b \in ShufflePrefix(UnseenB(r), PlanLen(MODULE_ITEMS.B, Cardinality(UnseenB(r)))),
        c \in SampleSeq(UnseenC(r), PlanLen(MODULE_ITEMS.C, Len(UnseenC(r))))}

SlimRows(rows) == [j \in 1..Len(rows) |-> slim_asdict_mr(rows[j])]

\* a sampler that stores the plan and leaves the cursors where they are
StorePlanKeepIdx(s, plan) ==
    [s EXCEPT !.keys = @ \cup {"plan", "plan_idx", "plan_sizes"},
              !.plan_sizes = [A |-> Len(plan.A), B |-> Len(plan.B), C |-> Len(plan.C)],
              !.plan = [A |-> SlimRows(plan.A),
                        B |-> plan.B,
                        C |-> [i \in 1..Len(plan.C) |->
                                  <<plan.C[i][1], plan.C[i][2], plan.C[i][3],
                                    SlimRows(plan.C[i][4])>>]]]

\* the session after sample_plan_for_rater stored the drawn plan
StorePlan(s, plan) ==
    [s EXCEPT !.keys = @ \cup {"plan", "plan_idx", "plan_sizes"},
              !.plan_idx = ZeroIdx,
              !.plan_sizes = [A |-> Len(plan.A), B |-> Len(plan.B), C |-> Len(plan.C)],
              !.plan = [A |-> SlimRows(plan.A),
                        B |-> plan.B,
                        C |-> [i \in 1..Len(plan.C) |->
                                  <<plan.C[i][1], plan.C[i][2], plan.C[i][3],
                                    SlimRows(plan.C[i][4])>>]]]

\* a handler that never calls sample_plan_for_rater
NotDrawn(s, r, need) == {s}

\* the sessions a handler can be left with: s itself, or s with a fresh plan
\* when the handler calls sample_plan_for_rater
Drawn(s, r, need) == IF need THEN {StorePlan(s, p) : p \in Plans(r)} ELSE {s}

get_or_create_rater(s) == [s EXCEPT !.keys = @ \cup {"rater_id"}]

\* ------------------------------------------------------------------------
\* Views: what a module page shows
\* ------------------------------------------------------------------------

\* hydrate_prompt_text: the text of the first pool row with the item's key
hydrate_prompt_text(item) ==
    LET at == {i \in 1..Len(ALL_A_IMAGES) : AKey(ALL_A_IMAGES[i]) = AKey(item)}
    IN  IF item.prompt_text # "" \/ at = {} THEN item.prompt_text
        ELSE ALL_A_IMAGES[CHOOSE i \in at : \A j \in at : i <= j].prompt_text

\* a hydrate that writes the item's own text into the pool row it finds
HydratedInPlace(pool, item) ==
    [i \in 1..Len(pool) |->
        IF AKey(pool[i]) = AKey(item)
        THEN [pool[i] EXCEPT !.prompt_text = item.prompt_text] ELSE pool[i]]

\* ALL_A_IMAGES after hydrate_prompt_text(item): the call reads the rows and
\* writes item["prompt_text"], a dict of the session's plan
HydratedPool(pool, item) == pool

RECURSIVE HydratedRows(_, _, _)
\* ALL_A_IMAGES after mod_c hydrated rows[i..] one by one
HydratedRows(pool, rows, i) ==
    IF i > Len(rows) THEN pool
    ELSE HydratedRows(HydratedPool(pool, rows[i]), rows, i + 1)

\* a name the view did not pass to render_template renders as the empty string
TemplateVar(ctx, name) == IF name \in DOMAIN ctx THEN ctx[name] ELSE ""

\* the tiles of mod_b: the providers of the set found in B_SETS now
Display(key) ==
    IF key \in DOMAIN B_SETS
    THEN SelectIdx(RankedProviders,
                   {i \in 1..Len(RankedProviders) :
                       RankedProviders[i] \in DOMAIN B_SETS[key]}, 1)
    ELSE <<>>

BImages(key) ==
    LET d == Display(key) IN [i \in 1..Len(d) |-> B_SETS[key][d[i]].image_path]

ImagesOf(rows) == [j \in 1..Len(rows) |-> rows[j].image_path]

\* the images each task of a plan shows when the plan is drawn
FrozenOf(plan) ==
    [A |-> [i \in 1..Len(plan.A) |-> <<plan.A[i].image_path>>],
     B |-> [i \in 1..Len(plan.B) |-> BImages(plan.B[i])],
     C |-> [i \in 1..Len(plan.C) |-> ImagesOf(plan.C[i][4])]]

\* module_a.html rendered for item: the hidden payload and the page
FormA(item) ==
    [kind |-> "A", provider |-> item.provider, category_id |-> item.category_id,
     prompt_id |-> item.prompt_id, seed_label |-> item.seed_label, tiles |-> {},
     task |-> AKey(item)]

ShownA(item) ==
    [task |-> AKey(item), images |-> <<item.image_path>>,
     prompt_text |-> hydrate_prompt_text(item)]

\* module_b.html rendered with cat, prompt_id, seed and display
FormB(key) ==
    LET ctx == [cat |-> key[1], prompt_id |-> key[2], seed |-> key[3]]
    IN  [kind |-> "B", provider |-> "", category_id |-> ctx.cat,
         prompt_id |-> TemplateVar(ctx, "prompt"), seed_label |-> ctx.seed,
         tiles |-> Range(Display(key)), task |-> key]

ShownB(key) ==
    [task |-> key, images |-> BImages(key),
     prompt_text |-> IF Display(key) = <<>> THEN key[2]
                     ELSE B_SETS[key][Display(key)[1]].prompt_text]

\* module_c.html rendered with provider, cat, prompt_id and images
FormC(c) ==
    LET ctx == [provider |-> c[1], cat |-> c[2], prompt_id |-> c[3]]
    IN  [kind |-> "C", provider |-> ctx.provider, category_id |-> ctx.cat,
         prompt_id |-> TemplateVar(ctx, "prompt"), seed_label |-> 0, tiles |-> {},
         task |-> CKey(c)]

ShownC(c) ==
    [task |-> CKey(c), images |-> ImagesOf(c[4]),
     prompt_text |-> IF Len(c[4]) > 0 /\ hydrate_prompt_text(c[4][1]) # ""
                     THEN hydrate_prompt_text(c[4][1]) ELSE c[3]]

\* render_template(name): the page, or a server error when no such template
RenderTemplate(name) == IF name \in TEMPLATES THEN "page:" \o name ELSE "error:500"

\* ------------------------------------------------------------------------
\* Request handlers
\* ------------------------------------------------------------------------

\* the longest a cursor is followed (submit_a/b/c add one without a check)
MaxCursor == 2

Route(m) == CASE m = "A" -> "mod_a" [] m = "B" -> "mod_b" [] OTHER -> "mod_c"

FullMode(s) == "full_mode" \in s.keys

\* the log entry of a response: the task a module page presents, or thanks
LogEntry(loc, shown, rendered) ==
    IF rendered # "" THEN << <<rendered, shown.task>> >>
    ELSE IF loc = "page:thanks.html" THEN << <<"thanks", <<>> >> >>
    ELSE <<>>

\* the end of a request of rater r: the session cookie s2 is saved, the
\* browser gets the response, and the history is brought up to date.
\* rendered names the module whose task page the response is ("" if none).
Finish(r, op, out, drew, s2, loc, form, shown, rendered) ==
    /\ session' = [session EXCEPT ![r] = s2]
    /\ browser' = [browser EXCEPT ![r] = [loc |-> loc, form |-> form, shown |-> shown]]
    /\ ev' = Event(op, r, out, drew)
    /\ frozen' = IF drew THEN [frozen EXCEPT ![r] = FrozenOf(s2.plan)] ELSE frozen
    /\ served' = IF drew THEN [served EXCEPT ![r] = [m \in Modules |-> {}]]
                 ELSE IF out = "accepted"
                 THEN [served EXCEPT ![r][form.kind] = @ \cup {form.task}]
                 ELSE served
    /\ earlier' = IF drew
                  THEN [earlier EXCEPT ![r] = [m \in Modules |-> @[m] \cup served[r][m]]]
                  ELSE earlier
    /\ chain' = chain
    /\ log' = [log EXCEPT ![r] =
                  IF ~chain[r] \/ op = "start_full_session" THEN <<>>
                  ELSE log[r] \o LogEntry(loc, shown, rendered)]

Follows(r, route) == chain[r] /\ browser[r].loc = "to:" \o route

\* GET / : draws a plan when the session has none.  home.html calls
\* url_for('start_module','A') with a positional value, which url_for does
\* not take, so rendering it fails
home(r) ==
    /\ initialized
    /\ LET s1 == get_or_create_rater(session[r])
           need == "plan" \notin s1.keys
       IN  \E s2 \in Drawn(s1, r, need) :
               Finish(r, "home", "error", need, s2, "error:500",
                      browser[r].form, NoShown, "")
    /\ UNCHANGED <<disk, initialized, poolVars, seenVars, dbVars, buildVars, lockVars, extVars>>

\* a start that never rewinds the cursor
KeepCursor(idx, size) == idx

\* if idx.get(module_id, 0) >= sizes.get(module_id, 0): idx[module_id] = 0
RestartCursor(idx, size) == IF idx >= size THEN 0 ELSE idx

\* GET /start/<module_id>
start_module(r, m) ==
    /\ initialized
    /\ LET s1 == [get_or_create_rater(session[r]) EXCEPT !.keys = @ \ {"full_mode"}]
           need == "plan" \notin s1.keys
       IN  \E s2 \in Drawn(s1, r, need) :
               LET s3 == [s2 EXCEPT !.keys = @ \cup {"plan_idx"},
                                    !.plan_idx[m] = RestartCursor(@, s2.plan_sizes[m])]
               IN  Finish(r, "start_module", m, need, s3, "to:" \o Route(m),
                          browser[r].form, NoShown, "")
    /\ UNCHANGED <<disk, initialized, poolVars, seenVars, dbVars, buildVars, lockVars, extVars>>

\* /start/full without a query string
NoQuery == EmptyMap

\* /start/full?A=..&B=..&C=.. asking for fewer items than configured, as the
\* Short Full Session link of home.html does
ShortQuery == [A |-> ItemsA - 1, B |-> ItemsB - 1, C |-> ItemsC - 1]

FullQueries == {NoQuery, ShortQuery}

\* GET /start/full with the query string q, which the handler does not read:
\* sample_plan_for_rater(rid, overrides=None)
start_full_session(r, q) ==
    /\ initialized
    /\ LET s1 == get_or_create_rater(session[r])
       IN  \E s2 \in Drawn(s1, r, TRUE) :
               Finish(r, "start_full_session", IF q = NoQuery THEN "ok" ELSE "overrides",
                      TRUE,
                      [s2 EXCEPT !.keys = @ \cup {"full_mode"}], "to:full_next",
                      browser[r].form, NoShown, "")
    /\ UNCHANGED <<disk, initialized, poolVars, seenVars, dbVars, buildVars, lockVars, extVars>>

\* a chaining order that looks at module B first
FullNextOrderBAC == <<"B", "A", "C">>

\* the order in which full_next looks for an unfinished module
FullNextOrder == <<"A", "B", "C">>

\* a full_next that sends the rater to module A whatever the cursors say
FullNextTargetA(s) == Route("A")

\* the first module of FullNextOrder whose cursor is below its plan size
FullNextTarget(s) ==
    LET open == {i \in 1..Len(FullNextOrder) :
                    s.plan_idx[FullNextOrder[i]] < s.plan_sizes[FullNextOrder[i]]}
    IN  IF open = {} THEN "thanks"
        ELSE Route(FullNextOrder[CHOOSE i \in open : \A j \in open : i <= j])

\* GET /full/next
full_next(r) ==
    /\ initialized
    /\ LET s1 == get_or_create_rater(session[r])
           need == \/ "plan_sizes" \notin s1.keys
                   \/ s1.plan_sizes.A + s1.plan_sizes.B + s1.plan_sizes.C = 0
       IN  \E s2 \in Drawn(s1, r, need) :
               LET target == FullNextTarget(s2)
                   s3 == IF target = "thanks"
                         THEN [s2 EXCEPT !.keys = @ \ {"full_mode"}] ELSE s2
               IN  Finish(r, "full_next", target, need, s3, "to:" \o target,
                          browser[r].form, NoShown, "")
    /\ UNCHANGED <<disk, initialized, poolVars, seenVars, dbVars, buildVars, lockVars, extVars>>

\* a view that always chains into the full session
WhenDoneChain(s) == "to:full_next"

\* where a module view sends a rater whose cursor is at the end of the plan
WhenDone(s) == IF FullMode(s) THEN "to:full_next" ELSE "to:thanks"

\* GET /a
mod_a(r) ==
    /\ initialized
    /\ LET s1 == get_or_create_rater(session[r])
           need == "plan" \notin s1.keys
       IN  \E s2 \in Drawn(s1, r, need) :
               LET idx == s2.plan_idx.A
                   total == s2.plan_sizes.A
               IN  IF idx >= total
                   THEN /\ Finish(r, "mod_a", "done", need, s2, WhenDone(s2),
                                  browser[r].form, NoShown, "")
                        /\ ALL_A_IMAGES' = ALL_A_IMAGES
                   ELSE IF idx + 1 > Len(s2.plan.A)
                   THEN /\ Finish(r, "mod_a", "error", need, s2, "error:500",
                                  browser[r].form, NoShown, "")
                        /\ ALL_A_IMAGES' = ALL_A_IMAGES
                   ELSE /\ Finish(r, "mod_a", "render", need, s2,
                                  RenderTemplate("module_a.html"),
                                  FormA(s2.plan.A[idx + 1]), ShownA(s2.plan.A[idx + 1]),
                                  "A")
                        /\ ALL_A_IMAGES' = HydratedPool(ALL_A_IMAGES, s2.plan.A[idx + 1])
    /\ UNCHANGED <<disk, initialized, B_SETS, C_SETS, seenVars, dbVars, buildVars, lockVars, extVars>>

\* GET /b
mod_b(r) ==
    /\ initialized
    /\ LET s1 == get_or_create_rater(session[r])
           need == "plan" \notin s1.keys
       IN  \E s2 \in Drawn(s1, r, need) :
               LET idx == s2.plan_idx.B
                   total == s2.plan_sizes.B
               IN  IF total <= 0
                   THEN Finish(r, "mod_b", "no_data", need, s2,
                               RenderTemplate("no_data.html"),
                               browser[r].form, NoShown, "")
                   ELSE IF idx >= total
                   THEN Finish(r, "mod_b", "done", need, s2, WhenDone(s2),
                               browser[r].form, NoShown, "")
                   ELSE IF idx + 1 > Len(s2.plan.B)
                   THEN Finish(r, "mod_b", "error", need, s2, "error:500",
                               browser[r].form, NoShown, "")
                   ELSE Finish(r, "mod_b", "render", need, s2,
                               RenderTemplate("module_b.html"),
                               FormB(s2.plan.B[idx + 1]), ShownB(s2.plan.B[idx + 1]),
                               "B")
    /\ UNCHANGED <<disk, initialized, poolVars, seenVars, dbVars, buildVars, lockVars, extVars>>

\* GET /c
mod_c(r) ==
    /\ initialized
    /\ LET s1 == get_or_create_rater(session[r])
           need == "plan" \notin s1.keys
       IN  \E s2 \in Drawn(s1, r, need) :
               LET idx == s2.plan_idx.C
                   total == s2.plan_sizes.C
               IN  IF idx >= total
                   THEN /\ Finish(r, "mod_c", "done", need, s2, WhenDone(s2),
                                  browser[r].form, NoShown, "")
                        /\ ALL_A_IMAGES' = ALL_A_IMAGES
                   ELSE IF idx + 1 > Len(s2.plan.C)
                   THEN /\ Finish(r, "mod_c", "error", need, s2, "error:500",
                                  browser[r].form, NoShown, "")
                        /\ ALL_A_IMAGES' = ALL_A_IMAGES
                   ELSE /\ Finish(r, "mod_c", "render", need, s2,
                                  RenderTemplate("module_c.html"),
                                  FormC(s2.plan.C[idx + 1]), ShownC(s2.plan.C[idx + 1]),
                                  "C")
                        /\ ALL_A_IMAGES' = HydratedRows(ALL_A_IMAGES, s2.plan.C[idx + 1][4], 1)
    /\ UNCHANGED <<disk, initialized, B_SETS, C_SETS, seenVars, dbVars, buildVars, lockVars, extVars>>

\* GET /thanks
thanks(r) ==
    /\ initialized
    /\ Finish(r, "thanks", "render", FALSE, session[r], RenderTemplate("thanks.html"),
              browser[r].form, NoShown, "")
    /\ UNCHANGED <<disk, initialized, poolVars, seenVars, dbVars, buildVars, lockVars, extVars>>

\* an add that removes a key already present
Toggled(set, key) == IF key \in set THEN set \ {key} ELSE set \cup {key}

\* set.add(key)
Added(set, key) == set \cup {key}

\* a pop that drops every rater's entry
PoppedAll(seen, r) == [x \in DOMAIN seen |-> {}]

\* SEEN_X.pop(rid, None): the entry of rid is gone, get_seen gives the empty set
Popped(seen, r) == [x \in DOMAIN seen |-> IF x = r THEN {} ELSE seen[x]]

\* SEEN_X.clear()
Cleared(seen) == [x \in DOMAIN seen |-> {}]

\* where an accepted submission of module m sends the rater
AfterSubmit(s, m) == IF FullMode(s) THEN "to:full_next" ELSE "to:" \o Route(m)

\* a submission that advances the cursor of every module
AdvanceAll(s, m) ==
    [s EXCEPT !.keys = @ \cup {"plan_idx"},
              !.plan_idx = [x \in Modules |-> s.plan_idx[x] + 1]]

\* idx_all[m] = idx_all.get(m, 0) + 1; session["plan_idx"] = idx_all
Advance(s, m) == [s EXCEPT !.keys = @ \cup {"plan_idx"}, !.plan_idx[m] = @ + 1]

OnPage(r, template) == chain[r] /\ browser[r].loc = "page:" \o template

\* the submission route of each module
SubmitRoute(m) == CASE m = "A" -> "submit_a" [] m = "B" -> "submit_b" [] OTHER -> "submit_c"

\* the row INSERT INTO responses_a/b/c adds: the AUTOINCREMENT id, the rater
\* and the fields of the form
RowA(id, r, form) ==
    [id |-> id, rater_id |-> r, provider |-> form.provider,
     category_id |-> form.category_id, prompt_id |-> form.prompt_id,
     seed_label |-> form.seed_label]

RowB(id, r, form, ranks) ==
    [id |-> id, rater_id |-> r, category_id |-> form.category_id,
     prompt_id |-> form.prompt_id, seed_label |-> form.seed_label, ranks |-> ranks]

RowC(id, r, form) ==
    [id |-> id, rater_id |-> r, provider |-> form.provider,
     category_id |-> form.category_id, prompt_id |-> form.prompt_id]

\* POST /submit/a with the hidden payload of the rater's last module A page;
\* rated says whether adherence, aesthetic, creativity and style are all sent
submit_a(r, rated) ==
    /\ initialized
    /\ browser[r].form.kind = "A"
    /\ session[r].plan_idx.A < MaxCursor
    /\ LET form == browser[r].form
           s1 == get_or_create_rater(session[r])
           key == <<form.provider, form.category_id, form.prompt_id, form.seed_label>>
       IN  /\ SEEN_A' = [SEEN_A EXCEPT ![r] = Added(@, key)]
           /\ IF rated
              THEN /\ responses_a' = responses_a \cup
                          {RowA(Cardinality(responses_a) + 1, r, form)}
                   /\ Finish(r, "submit_a", "accepted", FALSE, Advance(s1, "A"),
                             AfterSubmit(s1, "A"), form, NoShown, "")
              ELSE /\ responses_a' = responses_a
                   /\ Finish(r, "submit_a", "missing", FALSE, s1, "error:400",
                             form, NoShown, "")
    /\ UNCHANGED <<disk, initialized, poolVars, SEEN_B, SEEN_C, responses_b,
                   responses_c, buildVars, lockVars, extVars>>

RankPerm == [chatgpt |-> 1, google |-> 2, stability |-> 3, bfl |-> 4]
RankDup == [chatgpt |-> 1, google |-> 1, stability |-> 2, bfl |-> 3]
RankOutside == [chatgpt |-> 5, google |-> 6, stability |-> 7, bfl |-> 8]
RankPartial == [chatgpt |-> 1, google |-> 2, stability |-> 3]

\* the rank fields a rater may send
RankInputs == {RankPerm, RankDup, RankOutside, RankPartial, EmptyMap}

RankValues(ranks) == {ranks[p] : p \in DOMAIN ranks}

\* the check of submit_b: len(set(ranks.values())) == 4
UniqueRanks(ranks) == Cardinality(RankValues(ranks)) = Len(RankedProviders)

\* POST /submit/b with the hidden payload of the rater's last module B page
\* and the rank fields of its tiles
submit_b(r, ranks) ==
    /\ initialized
    /\ browser[r].form.kind = "B"
    /\ session[r].plan_idx.B < MaxCursor
    /\ DOMAIN ranks \subseteq browser[r].form.tiles
    /\ LET form == browser[r].form
           s1 == get_or_create_rater(session[r])
           key == <<form.category_id, form.prompt_id, form.seed_label>>
       IN  IF DOMAIN ranks # Range(RankedProviders)
           THEN /\ UNCHANGED <<SEEN_B, responses_b>>
                /\ Finish(r, "submit_b", "missing", FALSE, s1, "error:400",
                          form, NoShown, "")
           ELSE /\ SEEN_B' = [SEEN_B EXCEPT ![r] = Added(@, key)]
                /\ IF ~UniqueRanks(ranks)
                   THEN /\ responses_b' = responses_b
                        /\ Finish(r, "submit_b", "duplicate", FALSE, s1, "to:mod_b",
                                  form, NoShown, "")
                   ELSE /\ responses_b' = responses_b \cup
                               {RowB(Cardinality(responses_b) + 1, r, form, ranks)}
                        /\ Finish(r, "submit_b", "accepted", FALSE, Advance(s1, "B"),
                                  AfterSubmit(s1, "B"), form, NoShown, "")
    /\ UNCHANGED <<disk, initialized, poolVars, SEEN_A, SEEN_C, responses_a,
                   responses_c, buildVars, lockVars, extVars>>

\* POST /submit/c with the hidden payload of the rater's last module C page;
\* rated says whether diversity is sent
submit_c(r, rated) ==
    /\ initialized
    /\ browser[r].form.kind = "C"
    /\ session[r].plan_idx.C < MaxCursor
    /\ LET form == browser[r].form
           s1 == get_or_create_rater(session[r])
           key == <<form.provider, form.category_id, form.prompt_id>>
       IN  /\ SEEN_C' = [SEEN_C EXCEPT ![r] = Added(@, key)]
           /\ IF rated
              THEN /\ responses_c' = responses_c \cup
                          {RowC(Cardinality(responses_c) + 1, r, form)}
                   /\ Finish(r, "submit_c", "accepted", FALSE, Advance(s1, "C"),
                             AfterSubmit(s1, "C"), form, NoShown, "")
              ELSE /\ responses_c' = responses_c
                   /\ Finish(r, "submit_c", "missing", FALSE, s1, "error:400",
                             form, NoShown, "")
    /\ UNCHANGED <<disk, initialized, poolVars, SEEN_A, SEEN_B, responses_a,
                   responses_b, buildVars, lockVars, extVars>>

\* ------------------------------------------------------------------------
\* Administration
\* ------------------------------------------------------------------------

\* a clear that leaves the session as it is
PlanKept(s) == s

\* session.pop("plan", None); session.pop("plan_idx", None);
\* session.pop("plan_sizes", None)
PlanPopped(s) ==
    [s EXCEPT !.keys = @ \ {"plan", "plan_idx", "plan_sizes"},
              !.plan = EmptyPlan, !.plan_idx = ZeroIdx, !.plan_sizes = ZeroIdx]

\* POST /admin/clear_seen_me from the session of r
admin_clear_seen_me(r) ==
    /\ initialized
    /\ LET known == "rater_id" \in session[r].keys
       IN  /\ SEEN_A' = IF known THEN Popped(SEEN_A, r) ELSE SEEN_A
           /\ SEEN_B' = IF known THEN Popped(SEEN_B, r) ELSE SEEN_B
           /\ SEEN_C' = IF known THEN Popped(SEEN_C, r) ELSE SEEN_C
    /\ session' = [session EXCEPT ![r] = PlanPopped(@)]
    /\ browser' = [browser EXCEPT ![r] = [@ EXCEPT !.loc = "json", !.shown = NoShown]]
    /\ ev' = Event("admin_clear_seen_me", r, "ok", FALSE)
    /\ served' = [served EXCEPT ![r] = [m \in Modules |-> {}]]
    /\ earlier' = [earlier EXCEPT ![r] = [m \in Modules |-> {}]]
    /\ frozen' = [frozen EXCEPT ![r] = EmptyPlan]
    /\ UNCHANGED <<disk, initialized, poolVars, dbVars, chain, log, buildVars, lockVars, extVars>>

\* POST /admin/clear_seen_all from an administrator's session
admin_clear_seen_all ==
    /\ initialized
    /\ SEEN_A' = Cleared(SEEN_A)
    /\ SEEN_B' = Cleared(SEEN_B)
    /\ SEEN_C' = Cleared(SEEN_C)
    /\ ev' = Event("admin_clear_seen_all", "", "ok", FALSE)
    /\ served' = [r \in Raters |-> [m \in Modules |-> {}]]
    /\ earlier' = [r \in Raters |-> [m \in Modules |-> {}]]
    /\ UNCHANGED <<disk, initialized, poolVars, session, browser, dbVars,
                   frozen, chain, log, buildVars, lockVars, extVars>>

\* the number of reloads a behaviour is followed for
MaxRebuilds == 1

\* a build that starts from the rows of the previous build
KeptImages == ALL_A_IMAGES

\* ALL_A_IMAGES = [], the first statement of build_tasks
NoImages == <<>>

\* POST /admin/reload.  build_tasks takes no lock and works on the three
\* globals themselves, so it is modelled as the steps between which another
\* request can run: it empties ALL_A_IMAGES, reads one provider after the
\* other, empties and fills B_SETS, empties and fills C_SETS.
\* d is the state in which the reload finds the provider directories.
BuildBegin(d) ==
    /\ initialized
    /\ bt.pc = "idle"
    /\ rebuilds < MaxRebuilds
    /\ rebuilds' = rebuilds + 1
    /\ disk' = d
    /\ before' = CurPools
    /\ ALL_A_IMAGES' = NoImages
    /\ bt' = [BtIdle EXCEPT !.pc = "read", !.i = 1]
    /\ ev' = Event("admin_reload", "", "begin", FALSE)
    /\ UNCHANGED <<initialized, B_SETS, C_SETS, seenVars, session, browser,
                   dbVars, histVars, lockVars, extVars, requests>>

\* rows = read_latest_manifest(prov, root); ALL_A_IMAGES.extend(rows)
BuildRead ==
    /\ bt.pc = "read"
    /\ LET prov == Providers[bt.i]
           rows == read_latest_manifest(prov, Disks[disk][prov])
       IN  /\ ALL_A_IMAGES' = ALL_A_IMAGES \o rows
           /\ bt' = [bt EXCEPT !.per[prov] = rows,
                               !.i = @ + 1,
                               !.pc = IF bt.i = Len(Providers) THEN "b_reset" ELSE "read"]
    /\ ev' = Event("admin_reload", "", "read", FALSE)
    /\ UNCHANGED <<disk, initialized, B_SETS, C_SETS, seenVars, session, browser,
                   dbVars, histVars, before, rebuilds, lockVars, extVars, requests>>

\* opening or decoding a manifest raises: build_tasks is left where it is
\* and admin_reload answers with the error
BuildReadFails ==
    /\ bt.pc = "read"
    /\ OpensCsv(Disks[disk][Providers[bt.i]])
    /\ bt' = BtIdle
    /\ ev' = Event("admin_reload", "", "failed", FALSE)
    /\ UNCHANGED <<disk, initialized, poolVars, seenVars, session, browser, dbVars,
                   histVars, before, rebuilds, lockVars, extVars, requests>>

\* B_SETS = {}, then idx and keys_all are computed from per_provider
BuildBReset ==
    /\ bt.pc = "b_reset"
    /\ B_SETS' = EmptyMap
    /\ bt' = [bt EXCEPT !.keys = DOMAIN BuildB(bt.per),
                        !.pc = IF DOMAIN BuildB(bt.per) = {} THEN "c_reset" ELSE "b_put"]
    /\ ev' = Event("admin_reload", "", "b_reset", FALSE)
    /\ UNCHANGED <<disk, initialized, ALL_A_IMAGES, C_SETS, seenVars, session, browser,
                   dbVars, histVars, before, rebuilds, lockVars, extVars, requests>>

\* B_SETS[key] = {...} for the next key of the set keys_all
BuildBPut ==
    /\ bt.pc = "b_put"
    /\ \E key \in bt.keys :
           /\ B_SETS' = [k \in DOMAIN B_SETS \cup {key} |->
                            IF k = key THEN BuildB(bt.per)[key] ELSE B_SETS[k]]
           /\ bt' = [bt EXCEPT !.keys = @ \ {key},
                               !.pc = IF bt.keys = {key} THEN "c_reset" ELSE "b_put"]
    /\ ev' = Event("admin_reload", "", "b_put", FALSE)
    /\ UNCHANGED <<disk, initialized, ALL_A_IMAGES, C_SETS, seenVars, session, browser,
                   dbVars, histVars, before, rebuilds, lockVars, extVars, requests>>

\* C_SETS = []
BuildCReset ==
    /\ bt.pc = "c_reset"
    /\ C_SETS' = <<>>
    /\ bt' = [bt EXCEPT !.n = 0, !.pc = "c_put"]
    /\ ev' = Event("admin_reload", "", "c_reset", FALSE)
    /\ UNCHANGED <<disk, initialized, ALL_A_IMAGES, B_SETS, seenVars, session, browser,
                   dbVars, histVars, before, rebuilds, lockVars, extVars, requests>>

\* C_SETS.append(...) for the next complete group
BuildCAppend ==
    /\ bt.pc = "c_put"
    /\ bt.n < Len(BuildC(bt.per))
    /\ C_SETS' = Append(C_SETS, BuildC(bt.per)[bt.n + 1])
    /\ bt' = [bt EXCEPT !.n = @ + 1]
    /\ ev' = Event("admin_reload", "", "c_put", FALSE)
    /\ UNCHANGED <<disk, initialized, ALL_A_IMAGES, B_SETS, seenVars, session, browser,
                   dbVars, histVars, before, rebuilds, lockVars, extVars, requests>>

\* build_tasks returns; admin_reload answers ok
BuildEnd ==
    /\ bt.pc = "c_put"
    /\ bt.n = Len(BuildC(bt.per))
    /\ bt' = BtIdle
    /\ ev' = Event("admin_reload", "", "ok", FALSE)
    /\ UNCHANGED <<disk, initialized, poolVars, seenVars, session, browser, dbVars,
                   histVars, before, rebuilds, lockVars, extVars, requests>>

admin_reload ==
    \/ \E d \in 1..Len(Disks) : BuildBegin(d)
    \/ BuildRead
    \/ BuildReadFails
    \/ BuildBReset
    \/ BuildBPut
    \/ BuildCReset
    \/ BuildCAppend
    \/ BuildEnd

\* ------------------------------------------------------------------------
\* Seen history: mark_seen_a/b/c and the two clears, statement by statement
\* ------------------------------------------------------------------------

\* the number of seen-history calls a behaviour is followed for
MaxSeenCalls == 3

\* the keys the calls are made with
SeenKeys ==
    [A |-> {<<"chatgpt", "c1", "q1", 11>>, <<"google", "c1", "q1", 11>>},
     B |-> {<<"c1", "q1", 11>>},
     C |-> {<<"chatgpt", "c1", "q1">>}]

SeenMap(m) == CASE m = "A" -> SEEN_A [] m = "B" -> SEEN_B [] OTHER -> SEEN_C

\* the seen map of module m becomes new, the other two stay
SetSeen(m, new) ==
    /\ SEEN_A' = IF m = "A" THEN new ELSE SEEN_A
    /\ SEEN_B' = IF m = "B" THEN new ELSE SEEN_B
    /\ SEEN_C' = IF m = "C" THEN new ELSE SEEN_C

\* a with statement that enters without the lock
LockIgnored == TRUE

\* with _seen_lock: the lock can be taken
LockFree == lock = ""

\* the module after m in the order the clears go through the three maps
NextModule(m) == CASE m = "A" -> "B" [] m = "B" -> "C" [] OTHER -> ""

otherVars == <<disk, initialized, poolVars, session, browser, dbVars, ev, histVars,
               buildVars, extVars>>

\* a request thread reaches a seen-history call: mark_seen_a/b/c for a rater
\* and a key, admin_clear_seen_me for a rater, or admin_clear_seen_all
CallBegin(t) ==
    /\ th[t].pc = "idle"
    /\ requests < MaxSeenCalls
    /\ requests' = requests + 1
    /\ \/ \E m \in Modules, r \in Raters :
             \E key \in SeenKeys[m] :
                /\ th' = [th EXCEPT ![t] = [ThIdle EXCEPT !.pc = "wait",
                                               !.op = "mark_seen", !.module = m,
                                               !.rater = r, !.key = key]]
                /\ seenlog' = seenlog
       \/ \E r \in Raters :
             /\ th' = [th EXCEPT ![t] = [ThIdle EXCEPT !.pc = "wait",
                                            !.op = "admin_clear_seen_me",
                                            !.module = "A", !.rater = r]]
             /\ seenlog' = [seenlog EXCEPT !.cleared = TRUE]
       \/ /\ th' = [th EXCEPT ![t] = [ThIdle EXCEPT !.pc = "wait",
                                         !.op = "admin_clear_seen_all",
                                         !.module = "A"]]
          /\ seenlog' = [seenlog EXCEPT !.cleared = TRUE]
    /\ UNCHANGED <<otherVars, seenVars, lock>>

\* with _seen_lock: entered
Acquire(t) ==
    /\ th[t].pc = "wait"
    /\ LockFree
    /\ lock' = t
    /\ th' = [th EXCEPT ![t].pc = CASE th[t].op = "mark_seen" -> "load"
                                    [] th[t].op = "admin_clear_seen_me" -> "pop"
                                    [] OTHER -> "clear",
                        ![t].snap = [A |-> SEEN_A, B |-> SEEN_B, C |-> SEEN_C]]
    /\ UNCHANGED <<otherVars, seenVars, seenlog, requests>>

\* SEEN_X[rater_id]: the rater's set is looked up
Load(t) ==
    /\ th[t].pc = "load"
    /\ th' = [th EXCEPT ![t].pc = "store",
                        ![t].tmp = SeenMap(th[t].module)[th[t].rater]]
    /\ UNCHANGED <<otherVars, seenVars, lock, seenlog, requests>>

\* .add(key): the rater's set is the looked-up set with the key
Store(t) ==
    /\ th[t].pc = "store"
    /\ SetSeen(th[t].module,
               [SeenMap(th[t].module) EXCEPT ![th[t].rater] = Added(th[t].tmp, th[t].key)])
    /\ th' = [th EXCEPT ![t].pc = "release"]
    /\ UNCHANGED <<otherVars, lock, seenlog, requests>>

\* admin_clear_seen_me: SEEN_A.pop, SEEN_B.pop, SEEN_C.pop, one at a time
Pop(t) ==
    /\ th[t].pc = "pop"
    /\ SetSeen(th[t].module, Popped(SeenMap(th[t].module), th[t].rater))
    /\ th' = [th EXCEPT ![t].module = NextModule(@),
                        ![t].pc = IF NextModule(th[t].module) = "" THEN "release" ELSE "pop"]
    /\ UNCHANGED <<otherVars, lock, seenlog, requests>>

\* admin_clear_seen_all: SEEN_A.clear(), SEEN_B.clear(), SEEN_C.clear()
Clear(t) ==
    /\ th[t].pc = "clear"
    /\ SetSeen(th[t].module, Cleared(SeenMap(th[t].module)))
    /\ th' = [th EXCEPT ![t].module = NextModule(@),
                        ![t].pc = IF NextModule(th[t].module) = "" THEN "release" ELSE "clear"]
    /\ UNCHANGED <<otherVars, lock, seenlog, requests>>

\* the with block is left and the call returns
Release(t) ==
    /\ th[t].pc = "release"
    /\ lock' = ""
    /\ seenlog' = IF th[t].op = "mark_seen"
                  THEN [seenlog EXCEPT !.marked =
                           @ \cup {<<th[t].module, th[t].rater, th[t].key>>}]
                  ELSE seenlog
    /\ th' = [th EXCEPT ![t] = ThIdle]
    /\ UNCHANGED <<otherVars, seenVars, requests>>

SeenStep(t) ==
    \/ CallBegin(t)
    \/ Acquire(t)
    \/ Load(t)
    \/ Store(t)
    \/ Pop(t)
    \/ Clear(t)
    \/ Release(t)

\* ------------------------------------------------------------------------
\* Two tabs of one browser: a submission from the request to the cookie
\* ------------------------------------------------------------------------

\* the number of submissions the tabs send
MaxTabPosts == 2

tabFrame == <<disk, initialized, poolVars, histVars, buildVars, lockVars, cfgfile, call,
              boot>>

\* a session kept by the server and read when the request is handled
ServerSideSession(jar, carried) == jar

\* the session a handler works on: the cookie the request carried, which
\* Flask decodes anew for every request
RequestSession(jar, carried) == carried

\* a tab posts the form of the rater's module page, with the session cookie
\* the browser holds at that moment
TabSend(t, r) ==
    /\ initialized
    /\ tabs[t].pc = "idle"
    /\ browser[r].form.kind \in Modules
    /\ browser[r].form.kind = "B" => browser[r].form.tiles = Range(RankedProviders)
    /\ session[r].plan_idx[browser[r].form.kind] < MaxCursor
    /\ requests < MaxTabPosts
    /\ requests' = requests + 1
    /\ tabs' = [tabs EXCEPT ![t] = [pc |-> "sent", rater |-> r, cookie |-> session[r],
                                     form |-> browser[r].form,
                                     sent |-> session[r].plan_idx[browser[r].form.kind]]]
    /\ UNCHANGED <<tabFrame, seenVars, session, browser, dbVars, ev>>

\* submit_a/b/c handles the request of tab t with every field valid: it marks
\* the task seen, inserts the response, advances the cursor of the session
\* it decoded and answers with that session as the new cookie
TabHandle(t) ==
    /\ tabs[t].pc = "sent"
    /\ LET r == tabs[t].rater
           form == tabs[t].form
           m == form.kind
           s1 == get_or_create_rater(RequestSession(session[r], tabs[t].cookie))
       IN  /\ CASE m = "A" ->
                    /\ SEEN_A' = [SEEN_A EXCEPT ![r] =
                                      Added(@, <<form.provider, form.category_id,
                                                 form.prompt_id, form.seed_label>>)]
                    /\ responses_a' = responses_a \cup
                            {RowA(Cardinality(responses_a) + 1, r, form)}
                    /\ UNCHANGED <<SEEN_B, SEEN_C, responses_b, responses_c>>
                [] m = "B" ->
                    /\ SEEN_B' = [SEEN_B EXCEPT ![r] =
                                      Added(@, <<form.category_id, form.prompt_id,
                                                 form.seed_label>>)]
                    /\ responses_b' = responses_b \cup
                            {RowB(Cardinality(responses_b) + 1, r, form, RankPerm)}
                    /\ UNCHANGED <<SEEN_A, SEEN_C, responses_a, responses_c>>
                [] OTHER ->
                    /\ SEEN_C' = [SEEN_C EXCEPT ![r] =
                                      Added(@, <<form.provider, form.category_id,
                                                 form.prompt_id>>)]
                    /\ responses_c' = responses_c \cup
                            {RowC(Cardinality(responses_c) + 1, r, form)}
                    /\ UNCHANGED <<SEEN_A, SEEN_B, responses_a, responses_b>>
           /\ tabs' = [tabs EXCEPT ![t].pc = "answered", ![t].cookie = Advance(s1, m)]
           /\ ev' = Event(SubmitRoute(m), r, "accepted", FALSE)
    /\ UNCHANGED <<tabFrame, requests, session, browser>>

\* the browser gets the redirect of tab t and stores its Set-Cookie in place
\* of the session cookie it held
TabReceive(t) ==
    /\ tabs[t].pc = "answered"
    /\ LET r == tabs[t].rater
       IN  /\ session' = [session EXCEPT ![r] = tabs[t].cookie]
           /\ browser' = [browser EXCEPT ![r].loc =
                              AfterSubmit(tabs[t].cookie, tabs[t].form.kind)]
    /\ tabs' = [tabs EXCEPT ![t] = TabIdle]
    /\ UNCHANGED <<tabFrame, requests, seenVars, dbVars, ev>>

TabStep(t) ==
    \/ /\ t = "tab1" \/ tabs["tab1"].pc # "idle"
       /\ \E r \in Raters : TabSend(t, r)
    \/ TabHandle(t)
    \/ TabReceive(t)

\* ------------------------------------------------------------------------
\* The first requests: _ensure_init and _init_once, statement by statement
\* ------------------------------------------------------------------------

bootFrame == <<disk, seenVars, session, browser, dbVars, ev, histVars, buildVars,
               lockVars, cfgfile, call, tabs, requests>>

\* an _init_lock that never blocks
InitLockIgnored(holder) == TRUE

\* with _init_lock: the lock can be taken
InitLockFree(holder) == holder = ""

BootAt(t, pc) == boot.pc[t] = pc

BootGoto(t, pc) == [boot EXCEPT !.pc[t] = pc]

\* a request arrives on thread t: before_request calls _init_once
BootArrive(t) ==
    /\ BootAt(t, "idle")
    /\ boot' = BootGoto(t, "lock")
    /\ UNCHANGED <<bootFrame, initialized, poolVars>>

\* with _init_lock:
BootAcquire(t) ==
    /\ BootAt(t, "lock")
    /\ InitLockFree(boot.lock)
    /\ boot' = [BootGoto(t, "check") EXCEPT !.lock = t]
    /\ UNCHANGED <<bootFrame, initialized, poolVars>>

\* if _initialized: return
BootCheck(t) ==
    /\ BootAt(t, "check")
    /\ boot' = BootGoto(t, IF initialized THEN "release" ELSE "init_db")
    /\ UNCHANGED <<bootFrame, initialized, poolVars>>

\* init_db()
BootInitDb(t) ==
    /\ BootAt(t, "init_db")
    /\ boot' = [BootGoto(t, "rows") EXCEPT !.entered = @ + 1]
    /\ UNCHANGED <<bootFrame, initialized, poolVars>>

\* build_tasks, its first loop: ALL_A_IMAGES is emptied and filled with the
\* rows of every provider
BootBuildRows(t) ==
    /\ BootAt(t, "rows")
    /\ ALL_A_IMAGES' = BuildA(PerProvider(Disks[disk]))
    /\ boot' = BootGoto(t, "sets")
    /\ UNCHANGED <<bootFrame, initialized, B_SETS, C_SETS>>

\* build_tasks, its first loop: reading the manifest.csv of provider i raises;
\* the rows of the providers before it are in ALL_A_IMAGES, the exception
\* leaves the with block and the request is answered 500
BootBuildRaises(t) ==
    /\ BootAt(t, "rows")
    /\ \E i \in 1..Len(Providers) :
          /\ OpensCsv(Disks[disk][Providers[i]])
          /\ ALL_A_IMAGES' =
                Flatten([j \in 1..(i - 1) |-> PerProvider(Disks[disk])[Providers[j]]], 1)
    /\ boot' = [BootGoto(t, "failed") EXCEPT !.raised = @ + 1,
                                             !.lock = IF @ = t THEN "" ELSE @]
    /\ UNCHANGED <<bootFrame, initialized, B_SETS, C_SETS>>

\* build_tasks, the rest: B_SETS and C_SETS
BootBuildSets(t) ==
    /\ BootAt(t, "sets")
    /\ B_SETS' = BuildB(PerProvider(Disks[disk]))
    /\ C_SETS' = BuildC(PerProvider(Disks[disk]))
    /\ boot' = BootGoto(t, "flag")
    /\ UNCHANGED <<bootFrame, initialized, ALL_A_IMAGES>>

\* _initialized = True
BootFlag(t) ==
    /\ BootAt(t, "flag")
    /\ initialized' = TRUE
    /\ boot' = BootGoto(t, "release")
    /\ UNCHANGED <<bootFrame, poolVars>>

\* the with block ends and _init_once returns
BootRelease(t) ==
    /\ BootAt(t, "release")
    /\ boot' = [BootGoto(t, "handler") EXCEPT !.lock = IF @ = t THEN "" ELSE @]
    /\ UNCHANGED <<bootFrame, initialized, poolVars>>

\* the request handler runs and reads the pools
BootHandler(t) ==
    /\ BootAt(t, "handler")
    /\ boot' = [BootGoto(t, "done") EXCEPT !.read[t] = <<CurPools>>]
    /\ UNCHANGED <<bootFrame, initialized, poolVars>>

BootStep(t) ==
    \/ BootArrive(t)
    \/ BootAcquire(t)
    \/ BootCheck(t)
    \/ BootInitDb(t)
    \/ BootBuildRows(t)
    \/ BootBuildRaises(t)
    \/ BootBuildSets(t)
    \/ BootFlag(t)
    \/ BootRelease(t)
    \/ BootHandler(t)

\* ------------------------------------------------------------------------
\* Manifest loading, call by call
\* ------------------------------------------------------------------------

callFrame == <<disk, initialized, poolVars, seenVars, session, browser, dbVars, ev,
               histVars, buildVars, lockVars, cfgfile, tabs, boot, requests>>

\* _normalize_image_path is called with an image_path and the provider root
NormalizeCall ==
    /\ call = NoCall
    /\ \E path \in ImagePaths :
           call' = [fn |-> "_normalize_image_path", arg |-> path,
                    res |-> _normalize_image_path(path, ProviderRoot),
                    raised |-> FALSE]
    /\ UNCHANGED callFrame

\* read_latest_manifest is called for a provider directory and returns
ReadCall ==
    /\ call = NoCall
    /\ \E dir \in Dirs("chatgpt") :
           call' = [fn |-> "read_latest_manifest", arg |-> dir,
                    res |-> read_latest_manifest("chatgpt", dir), raised |-> FALSE]
    /\ UNCHANGED callFrame

\* read_latest_manifest is called and opening or decoding manifest.csv raises
ReadCallRaises ==
    /\ call = NoCall
    /\ \E dir \in Dirs("chatgpt") :
           /\ OpensCsv(dir)
           /\ call' = [fn |-> "read_latest_manifest", arg |-> dir, res |-> <<>>,
                       raised |-> TRUE]
    /\ UNCHANGED callFrame

\* build_tasks runs to its end on a disk where one provider's latest manifest
\* is any list of rows and the other providers are as in DiskBase
BuildCall ==
    /\ call = NoCall
    /\ \E p \in ProviderSet :
          \E rows \in RowSeqs(p) :
             LET d == [DiskBase EXCEPT ![p] = OneRun(rows)]
             IN  call' = [fn |-> "build_tasks", arg |-> d, res |-> Pools(d),
                          raised |-> FALSE]
    /\ UNCHANGED callFrame

\* the largest module size of config.yaml a single sampler call is followed on
MaxTarget == 2

\* the plans sample_plan_for_rater can draw from the pools for a rater who
\* has seen nothing, with tgt items configured for every module
PlansFrom(pools, tgt) ==
    {[A |-> a, B |-> b, C |-> c] :
        a \in SampleSeq(pools.A, PlanLen(tgt, Len(pools.A))),
        b \in ShufflePrefix(DOMAIN pools.B, PlanLen(tgt, Cardinality(DOMAIN pools.B))),
        c \in SampleSeq(pools.C, PlanLen(tgt, Len(pools.C)))}

\* sample_plan_for_rater is called for a new rater, over the pools built from
\* a disk where chatgpt's latest manifest is any list of rows
SampleCall ==
    /\ call = NoCall
    /\ \E rows \in RowSeqs("chatgpt") : \E tgt \in 1..MaxTarget :
          LET pools == Pools([DiskBase EXCEPT !["chatgpt"] = OneRun(rows)])
          IN  \E plan \in PlansFrom(pools, tgt) :
                 call' = [fn |-> "sample_plan_for_rater", arg |-> <<rows, tgt>>,
                          res |-> plan, raised |-> FALSE]
    /\ UNCHANGED callFrame

\* ------------------------------------------------------------------------
\* Specifications
\* ------------------------------------------------------------------------

\* the number of requests of a rater a behaviour is followed for
MaxRequests == 3

\* the number of requests followed where a plan is drawn, answered, drawn
\* again and viewed again
MaxLongRequests == 4

\* the requests of a rater who is no administrator
VisitRequest(r) ==
    \/ home(r)
    \/ \E m \in Modules : start_module(r, m)
    \/ (\E q \in FullQueries : start_full_session(r, q))
    \/ full_next(r)
    \/ mod_a(r)
    \/ mod_b(r)
    \/ mod_c(r)
    \/ thanks(r)
    \/ \E rated \in BOOLEAN : submit_a(r, rated)
    \/ \E ranks \in RankInputs : submit_b(r, ranks)
    \/ \E rated \in BOOLEAN : submit_c(r, rated)

RaterRequest(r) ==
    \/ VisitRequest(r)
    \/ admin_clear_seen_me(r)
    \/ admin_clear_seen_all

\* Spec: raters who go wherever they like and send what they like, over the
\* pools of the initial build
Next ==
    \/ InitOnce /\ UNCHANGED requests
    \/ /\ requests < MaxRequests
       /\ \E r \in Visitors : RaterRequest(r)
       /\ requests' = requests + 1

Spec == Init /\ [][Next]_vars

\* SpecVisits: the same raters with no administrator about, so that the
\* seen history is never cleared
NextVisits ==
    \/ InitOnce /\ UNCHANGED requests
    \/ /\ requests < MaxRequests
       /\ \E r \in Visitors : VisitRequest(r)
       /\ requests' = requests + 1

SpecVisits == Init /\ [][NextVisits]_vars

\* SpecLong: the same raters, followed for one request more
NextLong ==
    \/ InitOnce /\ UNCHANGED requests
    \/ /\ requests < MaxLongRequests
       /\ \E r \in Visitors : RaterRequest(r)
       /\ requests' = requests + 1

SpecLong == Init /\ [][NextLong]_vars

\* the requests that sample a plan or view a page
ReaderRequest(r) ==
    \/ start_full_session(r, NoQuery)
    \/ \E m \in Modules : start_module(r, m)
    \/ mod_a(r)
    \/ mod_b(r)
    \/ mod_c(r)

\* the number of rater requests followed beside a reload
MaxReads == 2

\* SpecBuild: an administrator reloads the pools from a changed disk while
\* raters sample and view
NextBuild ==
    \/ InitOnce /\ UNCHANGED requests
    \/ admin_reload
    \/ /\ requests < MaxReads
       /\ \E r \in Visitors : ReaderRequest(r)
       /\ requests' = requests + 1

SpecBuild == Init /\ [][NextBuild]_vars

\* SpecReload: an administrator reloads the pools from a changed disk, with
\* no rater about
NextReload ==
    \/ InitOnce /\ UNCHANGED requests
    \/ admin_reload

SpecReload == Init /\ [][NextReload]_vars

\* the seed_labels an administrator may write into config.yaml
ConfigChoices == {<<11, 23>>, <<11>>, <<23, 11>>}

\* an administrator edits config.yaml while no reload is running; the module
\* globals CFG, SEED_LABELS and the others were bound at import and keep
\* their values
EditConfig ==
    /\ initialized
    /\ bt = BtIdle
    /\ \E labels \in ConfigChoices :
          /\ labels # cfgfile.seed_labels
          /\ cfgfile' = [cfgfile EXCEPT !.seed_labels = labels]
    /\ UNCHANGED <<disk, initialized, poolVars, seenVars, session, browser, dbVars, ev,
                   histVars, buildVars, lockVars, call, tabs, boot, requests>>

\* SpecConfig: an administrator edits config.yaml and reloads the pools
NextConfig ==
    \/ InitOnce /\ UNCHANGED requests
    \/ EditConfig
    \/ admin_reload

SpecConfig == Init /\ [][NextConfig]_vars

\* the requests of a rater who starts a full session, follows every redirect
\* and answers every task page with a valid submission
ChainRequest(r) ==
    \/ browser[r].loc = "none" /\ start_full_session(r, NoQuery)
    \/ Follows(r, "full_next") /\ full_next(r)
    \/ Follows(r, "mod_a") /\ mod_a(r)
    \/ Follows(r, "mod_b") /\ mod_b(r)
    \/ Follows(r, "mod_c") /\ mod_c(r)
    \/ Follows(r, "thanks") /\ thanks(r)
    \/ OnPage(r, "module_a.html") /\ submit_a(r, TRUE)
    \/ OnPage(r, "module_b.html") /\ submit_b(r, RankPerm)
    \/ OnPage(r, "module_c.html") /\ submit_c(r, TRUE)

\* SpecChain: chained full sessions, while an administrator reloads the pools
\* from a changed disk
NextChain ==
    \/ InitOnce /\ UNCHANGED requests
    \/ (\E r \in Visitors : ChainRequest(r)) /\ UNCHANGED requests
    \/ admin_reload

SpecChain == Start(TRUE) /\ [][NextChain]_vars

\* the number of free requests before the rater settles into the full session
MaxFreeRequests == 2

\* a rater whose session is in full mode turns to /full/next and from then on
\* only follows redirects and answers the task pages
EnterChain(r) ==
    /\ initialized
    /\ ~chain[r]
    /\ FullMode(session[r])
    /\ chain' = [chain EXCEPT ![r] = TRUE]
    /\ log' = [log EXCEPT ![r] = <<>>]
    /\ browser' = [browser EXCEPT ![r].loc = "to:full_next"]
    /\ UNCHANGED <<disk, initialized, poolVars, seenVars, session, dbVars, ev, served,
                   earlier, frozen, buildVars, lockVars, extVars, requests>>

\* the requests of a rater inside the chain
Following == \E r \in Visitors : chain[r] /\ ChainRequest(r)

\* SpecLive: a rater goes wherever they like for a few requests, then
\* follows the full session; a rater who follows does not give up
NextLive ==
    \/ InitOnce /\ UNCHANGED requests
    \/ /\ requests < MaxFreeRequests
       /\ \E r \in Visitors : ~chain[r] /\ RaterRequest(r)
       /\ requests' = requests + 1
    \/ (\E r \in Visitors : EnterChain(r))
    \/ Following /\ UNCHANGED requests

SpecLive == Init /\ [][NextLive]_vars /\ WF_vars(Following /\ UNCHANGED requests)

\* SpecTabs: on the first disk each rater opens one module page, and two
\* tabs submit the pages that are open; the tabs are alike, so the second
\* one sends only while the first is busy
NextTabs ==
    \/ InitOnce /\ disk = 1 /\ UNCHANGED requests
    \/ /\ \E r \in Raters : /\ browser[r].form.kind \notin Modules
                            /\ mod_a(r) \/ mod_b(r) \/ mod_c(r)
       /\ UNCHANGED requests
    \/ \E t \in Tabs : TabStep(t)

SpecTabs == Init /\ [][NextTabs]_vars

\* SpecBoot: the first requests of the process, one on each request thread
NextBoot == \E t \in Threads : BootStep(t)

SpecBoot == Init /\ [][NextBoot]_vars

\* SpecSample: single calls of the plan sampler
NextSample == SampleCall

SpecSample == Init /\ [][NextSample]_vars

\* SpecManifest: the calls of manifest loading, each on any of its inputs
NextManifest ==
    \/ NormalizeCall
    \/ ReadCall
    \/ ReadCallRaises
    \/ BuildCall

SpecManifest == Init /\ [][NextManifest]_vars

\* SpecSeen: request threads inside the seen-history calls
NextSeen == \E t \in Threads : SeenStep(t)

SpecSeen == Init /\ [][NextSeen]_vars

\* ------------------------------------------------------------------------
\* Properties
\* ------------------------------------------------------------------------

ViewOps == {"mod_a", "mod_b", "mod_c"}

ReaderOps == ViewOps \cup {"start_module", "start_full_session"}

SubmitOf == [submit_a |-> "A", submit_b |-> "B", submit_c |-> "C"]

SeenOf(m, r) == CASE m = "A" -> SEEN_A[r] [] m = "B" -> SEEN_B[r] [] OTHER -> SEEN_C[r]

\* C1: no-repeat.  While the seen history is not cleared, a module page
\* never presents to rater r, for module m, a task that r answered under an
\* earlier plan.
C1_NoRepeat ==
    \A r \in Raters, m \in Modules :
        (ev.op = Route(m) /\ ev.rater = r /\ ev.out = "render")
            => browser[r].shown.task \notin earlier[r][m]

\* C2: a Module B submission whose four ranks are not pairwise distinct
\* leaves the rater's cursor, the rater's Module B seen set and the table of
\* responses as they were.
C2_DuplicateRanksLeaveState ==
    [][(ev'.op = "submit_b" /\ ev'.out = "duplicate")
          => /\ responses_b' = responses_b
             /\ \A r \in Raters :
                   /\ session'[r].plan_idx = session[r].plan_idx
                   /\ SEEN_B'[r] = SEEN_B[r]]_vars

\* C3: a submission of module A, B or C that lacks a required field leaves
\* the rater's seen set of that module and the rater's cursor as they were.
C3_MissingFieldLeavesState ==
    [][(ev'.op \in DOMAIN SubmitOf /\ ev'.out = "missing")
          => \A r \in Raters, m \in Modules :
                /\ session'[r].plan_idx = session[r].plan_idx
                /\ SubmitOf[ev'.op] = m => SeenOf(m, r)' = SeenOf(m, r)]_vars

\* C4: every recorded Module B response ranks the N providers with a
\* permutation of 1..N.
C4_RecordedRanksArePermutation ==
    \A row \in responses_b : RankValues(row.ranks) = 1..Len(RankedProviders)

\* C5: a sampling or view request handled while build_tasks is running reads
\* either the complete pools from before the rebuild or the complete pools
\* the rebuild produces, never pools in between.
C5_ReaderSeesCompletePools ==
    (ev.op \in ReaderOps /\ bt.pc # "idle")
        => (CurPools = before \/ CurPools = Pools(Disks[disk]))

\* C6: when a reload fails while rereading a manifest, the three pools are
\* the pools that were in effect when the reload began.
C6_FailedReloadKeepsPools ==
    (ev.op = "admin_reload" /\ ev.out = "failed") => CurPools = before

\* C7: a task page served from a plan shows the images that task had when
\* the plan was drawn, whatever reloads happened since.
C7_ServedTaskIsFrozen ==
    \A r \in Raters, m \in Modules :
        (ev.op = Route(m) /\ ev.rater = r /\ ev.out = "render")
            => LET i == session[r].plan_idx[m] + 1
               IN  /\ i <= Len(frozen[r][m])
                   /\ browser[r].shown.images = frozen[r][m][i]

\* C8: viewing a module whose plan is empty gives a completed or unavailable
\* outcome (thanks, the next module, or an unavailable page), never an error.
C8_EmptyModuleIsNotAnError ==
    \A r \in Raters, m \in Modules :
        (ev.op = Route(m) /\ ev.rater = r /\ session[r].plan_sizes[m] = 0)
            => browser[r].loc \in {"to:thanks", "to:full_next", "page:no_data.html"}

UnseenCount(m, r) ==
    CASE m = "A" -> Len(UnseenA(r))
      [] m = "B" -> Cardinality(UnseenB(r))
      [] OTHER -> Len(UnseenC(r))

\* C9: sampling bound.  After every plan draw the plan of each module M has
\* length min(MODULE_ITEMS[M], number of the rater's unseen candidates for M).
C9_SamplingBound ==
    ev.drew =>
        \A m \in Modules :
            /\ Len(session[ev.rater].plan[m]) = Min(MODULE_ITEMS[m], UnseenCount(m, ev.rater))
            /\ session[ev.rater].plan_sizes[m] = Len(session[ev.rater].plan[m])

\* a draw by a rater with a non-empty seen history that filters the pool of
\* module A and still leaves more candidates than the configured size
C9_Witness ==
    /\ ev.drew
    /\ SEEN_A[ev.rater] # {}
    /\ Len(UnseenA(ev.rater)) < Len(ALL_A_IMAGES)
    /\ Len(UnseenA(ev.rater)) > MODULE_ITEMS.A
    /\ Len(session[ev.rater].plan.A) = MODULE_ITEMS.A

\* what a chained full session over the plan of r presents, in order
ExpectedLog(r) ==
    LET p == session[r].plan
    IN  [i \in 1..Len(p.A) |-> <<"A", AKey(p.A[i])>>]
        \o [i \in 1..Len(p.B) |-> <<"B", p.B[i]>>]
        \o [i \in 1..Len(p.C) |-> <<"C", CKey(p.C[i])>>]
        \o << <<"thanks", <<>> >> >>

IsPrefix(a, b) == Len(a) <= Len(b) /\ \A i \in 1..Len(a) : a[i] = b[i]

\* C10: chained full session.  A rater who starts a full session and answers
\* every task validly is presented all of plan A in order, then all of plan
\* B, then all of plan C, then thanks once; full_mode is cleared when the
\* rater is sent to thanks.
C10_ChainedOrder ==
    \A r \in Raters :
        (chain[r] /\ "plan" \in session[r].keys)
            => /\ IsPrefix(log[r], ExpectedLog(r))
               /\ browser[r].loc \in {"to:thanks", "page:thanks.html"}
                     => ~FullMode(session[r])
               /\ browser[r].loc = "to:thanks"
                     => Append(log[r], <<"thanks", <<>> >>) = ExpectedLog(r)
               /\ browser[r].loc = "page:thanks.html" => log[r] = ExpectedLog(r)

\* a chained session that went through a task of every module and ended
C10_Witness ==
    \E r \in Raters :
        /\ chain[r]
        /\ browser[r].loc = "page:thanks.html"
        /\ \A m \in Modules : session[r].plan_sizes[m] > 0
        /\ Len(log[r]) = session[r].plan_sizes.A + session[r].plan_sizes.B
                            + session[r].plan_sizes.C + 1

\* the last step completed a build_tasks call
BuildCompleted ==
    \/ ev.op = "_init_once"
    \/ ev.op = "admin_reload" /\ ev.out = "ok"

\* the rows build_tasks retained for provider p from the present manifests
Retained(p) == read_latest_manifest(p, Disks[disk][p])

\* C11: after a completed build_tasks every set of B_SETS has exactly one
\* entry for each configured provider, that provider's own row with the
\* set's key, and a key is in B_SETS exactly if every configured provider
\* retained a row with that key.
C11_BSetsComplete ==
    BuildCompleted =>
        /\ \A key \in DOMAIN B_SETS :
              /\ DOMAIN B_SETS[key] = ProviderSet
              /\ \A p \in ProviderSet :
                    /\ B_SETS[key][p].provider = p
                    /\ BKey(B_SETS[key][p]) = key
                    /\ B_SETS[key][p] \in Range(Retained(p))
        /\ \A q \in ProviderSet :
              \A key \in {BKey(row) : row \in Range(Retained(q))} :
                  key \in DOMAIN B_SETS
                      <=> \A p \in ProviderSet :
                             \E row \in Range(Retained(p)) : BKey(row) = key

\* a completed build that kept a key all providers have and dropped a key
\* only one provider has
C11_Witness ==
    /\ BuildCompleted
    /\ ev.op = "admin_reload"
    /\ DOMAIN B_SETS # {}
    /\ \E row \in Range(Retained("chatgpt")) : BKey(row) \notin DOMAIN B_SETS

\* C12: after a completed build_tasks every set of C_SETS has exactly one
\* entry per configured seed label, in the order of SEED_LABELS, every entry
\* is a retained row of the set's provider with the set's category and
\* prompt, and no group appears twice.
C12_CSetsComplete ==
    BuildCompleted =>
        /\ \A i \in 1..Len(C_SETS) :
              LET c == C_SETS[i]
              IN  /\ Len(c[4]) = Len(SEED_LABELS)
                  /\ \A j \in 1..Len(c[4]) :
                        /\ j <= Len(SEED_LABELS) => c[4][j].seed_label = SEED_LABELS[j]
                        /\ c[4][j].provider = c[1]
                        /\ c[4][j].category_id = c[2]
                        /\ c[4][j].prompt_id = c[3]
                        /\ c[4][j] \in Range(Retained(c[1]))
        /\ \A i, j \in 1..Len(C_SETS) : i # j => CKey(C_SETS[i]) # CKey(C_SETS[j])

\* a completed build that emitted a set for a provider with every seed label
\* and none for a provider that has rows but lacks a seed label
C12_Witness ==
    /\ BuildCompleted
    /\ ev.op = "admin_reload"
    /\ \E i \in 1..Len(C_SETS) : C_SETS[i][1] = "chatgpt"
    /\ Retained("google") # <<>>
    /\ \A i \in 1..Len(C_SETS) : C_SETS[i][1] # "google"

\* C13: idempotent rebuild.  A reload that runs to its end over the manifests
\* the pools in effect were built from leaves the three pools as they were.
C13_RebuildIdempotent ==
    (ev.op = "admin_reload" /\ ev.out = "ok" /\ before = Pools(Disks[disk]))
        => CurPools = before

\* a completed reload over unchanged manifests that hold tasks of all modules
C13_Witness ==
    /\ ev.op = "admin_reload"
    /\ ev.out = "ok"
    /\ before = Pools(Disks[disk])
    /\ ALL_A_IMAGES # <<>>
    /\ DOMAIN B_SETS # {}
    /\ C_SETS # <<>>

\* the key of the task at position i of the plan of module m
PlanKey(plan, m, i) ==
    CASE m = "A" -> AKey(plan.A[i])
      [] m = "B" -> plan.B[i]
      [] OTHER -> CKey(plan.C[i])

\* C14: an accepted submission of the page of the task at the rater's cursor
\* adds to the rater's seen set of that module exactly the key of that task,
\* plan[M][cursor], and advances that cursor by exactly 1.
C14_AcceptedMarksCursorTask ==
    [][\A r \in Raters, m \in Modules :
          LET i == session[r].plan_idx[m] + 1
          IN  (/\ ev'.op \in DOMAIN SubmitOf
               /\ SubmitOf[ev'.op] = m
               /\ ev'.rater = r
               /\ ev'.out = "accepted"
               /\ i <= Len(session[r].plan[m])
               /\ browser[r].form.task = PlanKey(session[r].plan, m, i))
              => /\ SeenOf(m, r)' = SeenOf(m, r) \cup {PlanKey(session[r].plan, m, i)}
                 /\ session'[r].plan_idx[m] = session[r].plan_idx[m] + 1]_vars

SubmitOps == DOMAIN SubmitOf

\* the module a view or submit request belongs to
ModuleOf(op) ==
    CASE op \in {"mod_a", "submit_a"} -> "A"
      [] op \in {"mod_b", "submit_b"} -> "B"
      [] OTHER -> "C"

C17_ClearsEmptySeenSets ==
    \A t \in Threads :
        th[t].pc = "release" =>
            /\ th[t].op = "admin_clear_seen_me" =>
                  \A m \in Modules, r \in Raters :
                      SeenMap(m)[r] = IF r = th[t].rater THEN {} ELSE th[t].snap[m][r]
            /\ th[t].op = "admin_clear_seen_all" =>
                  \A m \in Modules, r \in Raters : SeenMap(m)[r] = {}

\* admin_clear_seen_me has emptied a rater's non-empty seen set and left
\* another rater's non-empty seen set in place
C17_Witness ==
    \E t \in Threads, r \in Raters :
        /\ th[t].pc = "release"
        /\ th[t].op = "admin_clear_seen_me"
        /\ r # th[t].rater
        /\ \E m \in Modules : th[t].snap[m][th[t].rater] # {}
        /\ \E m \in Modules : SeenMap(m)[r] # {}

\* C18: mark_seen is idempotent.  When a mark_seen call has added its key,
\* the key is in the rater's seen set of that module, and if the key was in
\* that set already the three seen maps are what they were before the call.
C18_MarkSeenIdempotent ==
    \A t \in Threads :
        (th[t].pc = "release" /\ th[t].op = "mark_seen") =>
            /\ th[t].key \in SeenMap(th[t].module)[th[t].rater]
            /\ th[t].key \in th[t].snap[th[t].module][th[t].rater]
                  => \A m \in Modules : SeenMap(m) = th[t].snap[m]

\* a mark_seen call with a key the rater's seen set already held
C18_Witness ==
    \E t \in Threads :
        /\ th[t].pc = "release"
        /\ th[t].op = "mark_seen"
        /\ th[t].key \in th[t].snap[th[t].module][th[t].rater]
        /\ <<th[t].module, th[t].rater, th[t].key>> \in seenlog.marked

\* the threads inside a with _seen_lock block
InsideLock == {t \in Threads : th[t].pc \in {"load", "store", "pop", "clear", "release"}}

\* C19: at most one request thread is inside a seen-history mutation at any
\* time, and while no clear was called every key of a mark_seen call that
\* returned is in its rater's seen set of its module.
C19_SeenMutationsExclusive ==
    /\ Cardinality(InsideLock) <= 1
    /\ ~seenlog.cleared =>
          \A e \in seenlog.marked : e[3] \in SeenMap(e[1])[e[2]]

\* two threads mark different keys in the same set of the same rater: one
\* has looked the set up and the other waits for the lock, after an earlier
\* mark returned
C19_Witness ==
    \E t, u \in Threads :
        /\ th[t].pc = "store"
        /\ th[u].pc = "wait"
        /\ th[u].op = "mark_seen"
        /\ th[u].module = th[t].module
        /\ th[u].rater = th[t].rater
        /\ th[u].key # th[t].key
        /\ seenlog.marked # {}
        /\ ~seenlog.cleared

\* C20: a full session started with a query string of per-module sizes draws,
\* for every module M, a plan of length min(size asked for M, number of the
\* rater's unseen candidates for M).
C20_FullSessionOverrides ==
    (ev.op = "start_full_session" /\ ev.out = "overrides") =>
        \A m \in Modules :
            Len(session[ev.rater].plan[m]) = Min(ShortQuery[m], UnseenCount(m, ev.rater))
\* ------------------------------------------------------------------------
\* Manifest loading
\* ------------------------------------------------------------------------

\* the positions of the segments of path that spell name
SegmentsNamed(path, name) == {i \in 1..Len(path.segs) : Lower(path.segs[i]) = name}

\* C21: _normalize_image_path resolves by four rules in priority order.  A
\* path with the provider directory name as a segment that something follows
\* is re-rooted after such a segment; else a path with an images segment that
\* something follows is re-rooted from such a segment; else a path that is
\* relative and has no drive letter is joined to the provider root; else a
\* path that begins with a separator gives the filename under images.
C21_NormalizeByPriority ==
    call.fn = "_normalize_image_path" =>
        LET path == call.arg
            n == Len(path.segs)
            prov == {i \in SegmentsNamed(path, "chatgpt") : i < n}
            imgs == {i \in SegmentsNamed(path, "images") : i < n}
        IN  IF prov # {}
            THEN \E i \in prov : call.res = ProviderRoot \o SubSeq(path.segs, i + 1, n)
            ELSE IF SegmentsNamed(path, "chatgpt") # {} THEN TRUE
            ELSE IF imgs # {}
            THEN \E i \in imgs : call.res = ProviderRoot \o SubSeq(path.segs, i, n)
            ELSE IF SegmentsNamed(path, "images") # {} THEN TRUE
            ELSE IF ~path.abs
            THEN SegmentsNamed(path, "c:") = {} => call.res = ProviderRoot \o path.segs
            ELSE n > 0 => call.res = ProviderRoot \o <<"images", path.segs[n]>>

\* the run directory with the greatest name: run-2 if there is one
LatestOf(dir) ==
    IF \E x \in dir.runs : x.name = "run-2"
    THEN CHOOSE x \in dir.runs : x.name = "run-2"
    ELSE CHOOSE x \in dir.runs : x.name = "run-1"

PathsOf(rows) == {rows[i].image_path : i \in 1..Len(rows)}

\* C22: read_latest_manifest returns the empty list and raises nothing when
\* the manifests directory is missing, holds no run directory, or the run
\* directory with the greatest name has no manifest.csv; otherwise the rows
\* it returns are rows of that latest run, and it returns every row of that
\* run that has status ok and an image file.
C22_LatestManifestOrEmpty ==
    call.fn = "read_latest_manifest" =>
        LET dir == call.arg
        IN  IF ~dir.has_manifests \/ dir.runs = {} \/ ~LatestOf(dir).has_csv
            THEN call.res = <<>> /\ ~call.raised
            ELSE ~call.raised =>
                    /\ PathsOf(call.res) \subseteq PathsOf(LatestOf(dir).rows)
                    /\ \A i \in 1..Len(LatestOf(dir).rows) :
                          LET r == LatestOf(dir).rows[i]
                          IN  (r.status = "ok" /\ r.file_exists)
                                 => r.image_path \in PathsOf(call.res)

\* the latest run has no manifest.csv while an older run has one with rows
C22_Witness ==
    /\ call.fn = "read_latest_manifest"
    /\ \E x, y \in call.arg.runs :
          /\ x.name = "run-2" /\ ~x.has_csv
          /\ y.name = "run-1" /\ y.has_csv
          /\ \E i \in 1..Len(y.rows) : y.rows[i].status = "ok" /\ y.rows[i].file_exists
    /\ call.res = <<>>

\* ------------------------------------------------------------------------
\* Plans and cursors
\* ------------------------------------------------------------------------

\* C23: when a plan has just been drawn for a rater, every task of the plan
\* is a member of the current pool of its module and its key is not in the
\* rater's seen set of that module.
C23_DrawnFromUnseenPool ==
    ev.drew =>
        LET r == ev.rater
            p == session[r].plan
        IN  /\ \A i \in 1..Len(p.A) :
                  /\ \E j \in 1..Len(ALL_A_IMAGES) : p.A[i] = slim_asdict_mr(ALL_A_IMAGES[j])
                  /\ <<p.A[i].provider, p.A[i].category_id, p.A[i].prompt_id,
                       p.A[i].seed_label>> \notin SEEN_A[r]
            /\ \A i \in 1..Len(p.B) :
                  p.B[i] \in DOMAIN B_SETS /\ p.B[i] \notin SEEN_B[r]
            /\ \A i \in 1..Len(p.C) :
                  /\ \E j \in 1..Len(C_SETS) :
                        /\ <<C_SETS[j][1], C_SETS[j][2], C_SETS[j][3]>>
                              = <<p.C[i][1], p.C[i][2], p.C[i][3]>>
                        /\ p.C[i][4] = SlimRows(C_SETS[j][4])
                  /\ <<p.C[i][1], p.C[i][2], p.C[i][3]>> \notin SEEN_C[r]

\* a plan with tasks of every module, drawn for a rater who has seen a task
C23_Witness ==
    /\ ev.drew
    /\ SEEN_A[ev.rater] # {}
    /\ \A m \in Modules : Len(session[ev.rater].plan[m]) > 0

\* C24: while a rater keeps a plan and no plan is drawn, a step changes the
\* cursor of a module only by adding one on an accepted submission of that
\* rater for that module, or by setting it to 0 when start_module restarts a
\* module whose cursor had reached the size of its plan.
C24_CursorStepsByOne ==
    [][\A r \in Raters, m \in Modules :
          (/\ "plan" \in session[r].keys
           /\ "plan" \in session'[r].keys
           /\ ~(ev'.drew /\ ev'.rater = r)
           /\ session'[r].plan_idx[m] # session[r].plan_idx[m])
             => \/ /\ ev'.op = SubmitRoute(m) /\ ev'.rater = r /\ ev'.out = "accepted"
                   /\ session'[r].plan_idx[m] = session[r].plan_idx[m] + 1
                \/ /\ ev'.op = "start_module" /\ ev'.rater = r /\ ev'.out = m
                   /\ session[r].plan_idx[m] >= session[r].plan_sizes[m]
                   /\ session'[r].plan_idx[m] = 0]_vars

\* an accepted submission has advanced the cursor of its module, alone, to 1
C24_Witness ==
    /\ ev.op = "submit_a" /\ ev.out = "accepted"
    /\ "plan" \in session[ev.rater].keys
    /\ session[ev.rater].plan_idx = [A |-> 1, B |-> 0, C |-> 0]

\* the requests that enter or view a module
EnterOps == ViewOps \cup {"start_module", "full_next"}

\* C25: a request that enters or views a module from a session without a
\* plan draws a plan; after it the session holds the plan with every cursor
\* at 0, and a task page it answers with shows the first task of the plan.
C25_NoPlanDrawsFirst ==
    [][\A r \in Raters :
          (/\ "plan" \notin session[r].keys
           /\ ev'.op \in EnterOps
           /\ ev'.rater = r)
             => /\ ev'.drew
                /\ {"plan", "plan_idx", "plan_sizes"} \subseteq session'[r].keys
                /\ \A m \in Modules : session'[r].plan_idx[m] = 0
                /\ ev'.out = "render"
                      => /\ browser'[r].loc = "page:module_"
                                \o (CASE ModuleOf(ev'.op) = "A" -> "a"
                                       [] ModuleOf(ev'.op) = "B" -> "b"
                                       [] OTHER -> "c") \o ".html"
                         /\ browser'[r].shown.task
                              = PlanKey(session'[r].plan, ModuleOf(ev'.op), 1)]_vars

\* a module view from a session without a plan drew one and shows a task
C25_Witness ==
    /\ ev.op \in ViewOps /\ ev.drew /\ ev.out = "render"
    /\ session[ev.rater].plan_sizes[ModuleOf(ev.op)] > 0

\* the requests of raters and the two seen-history clears
RaterOps ==
    {"home", "start_module", "start_full_session", "full_next", "mod_a", "mod_b",
     "mod_c", "thanks", "submit_a", "submit_b", "submit_c", "admin_clear_seen_me",
     "admin_clear_seen_all"}

\* C26: the three pools are written only by build_tasks.  No request of a
\* rater and no seen-history clear changes ALL_A_IMAGES, B_SETS or C_SETS.
C26_OnlyBuildWritesPools ==
    [][ev'.op \in RaterOps =>
          /\ ALL_A_IMAGES' = ALL_A_IMAGES
          /\ B_SETS' = B_SETS
          /\ C_SETS' = C_SETS]_vars

\* a module A page was rendered, its item hydrated from pools that hold rows
C26_Witness ==
    /\ ev.op = "mod_a" /\ ev.out = "render"
    /\ browser[ev.rater].shown.prompt_text # ""
    /\ ALL_A_IMAGES # <<>> /\ DOMAIN B_SETS # {} /\ C_SETS # <<>>

\* ------------------------------------------------------------------------
\* What build_tasks retains
\* ------------------------------------------------------------------------

\* the manifest rows of provider p on disk d that have status ok and an image
\* file, with the key (cat, prompt, seed)
RetainedWithKey(d, p, key) ==
    LET rows == LatestOf(d[p]).rows
    IN  {rows[i] : i \in {j \in 1..Len(rows) :
                            /\ rows[j].status = "ok"
                            /\ rows[j].file_exists
                            /\ <<rows[j].category_id, rows[j].prompt_id, rows[j].seed>> = key}}

\* timestamp a sorts after timestamp b
SortsAfter(a, b) == a = "t2" /\ b = "t1"

\* C27: in every comparison set a completed build_tasks leaves, the entry of
\* each provider is one of the rows that provider retained with the set's
\* key, and none of those rows has a greater completion timestamp.
C27_LatestEntryPerKey ==
    call.fn = "build_tasks" =>
        \A key \in DOMAIN call.res.B :
            \A p \in ProviderSet :
                LET mine == call.res.B[key][p]
                    cands == RetainedWithKey(call.arg, p, key)
                IN  /\ \E x \in cands :
                          /\ x.image_path = mine.image_path
                          /\ x.request_completed_utc = mine.completed_utc
                    /\ \A x \in cands :
                          ~SortsAfter(x.request_completed_utc, mine.completed_utc)

\* a provider retained the later generation of a key before the earlier one,
\* and the comparison set has the later one
C27_Witness ==
    /\ call.fn = "build_tasks"
    /\ \E p \in ProviderSet :
          LET rows == LatestOf(call.arg[p]).rows
          IN  /\ Len(rows) = 2
              /\ rows[1].image_path = p \o "/b11"
              /\ rows[2].image_path = p \o "/a11"
              /\ <<"c1", "q1", 11>> \in DOMAIN call.res.B
              /\ call.res.B[<<"c1", "q1", 11>>][p].image_path = p \o "/b11"

\* the rows reachable from the three pools
PoolEntries(pools) ==
    Range(pools.A)
    \cup {pools.B[k][p] : k \in DOMAIN pools.B, p \in ProviderSet}
    \cup UNION {Range(pools.C[i][4]) : i \in 1..Len(pools.C)}

\* the rows of the latest manifest of provider p on disk d
ManifestRows(d, p) == Range(LatestOf(d[p]).rows)

\* C28: after a completed build_tasks every entry reachable from a pool has
\* status ok and is a manifest row whose image file existed, and a manifest
\* row that is not ok or has no image file is reachable from no pool.
C28_OnlyOkRowsWithFiles ==
    call.fn = "build_tasks" =>
        /\ \A e \in PoolEntries(call.res) :
              /\ e.status = "ok"
              /\ \E x \in ManifestRows(call.arg, e.provider) :
                    x.image_path = e.image_path /\ x.status = "ok" /\ x.file_exists
        /\ \A p \in ProviderSet :
              \A x \in ManifestRows(call.arg, p) :
                 (x.status # "ok" \/ ~x.file_exists)
                    => \A e \in PoolEntries(call.res) : e.image_path # x.image_path

\* a manifest with a failed row or a row without its file beside a good row,
\* and pools that hold the good row
C28_Witness ==
    /\ call.fn = "build_tasks"
    /\ \E p \in ProviderSet :
          /\ \E x \in ManifestRows(call.arg, p) : x.status # "ok" \/ ~x.file_exists
          /\ \E x \in ManifestRows(call.arg, p) :
                /\ x.status = "ok" /\ x.file_exists
                /\ \E e \in PoolEntries(call.res) : e.image_path = x.image_path
    /\ DOMAIN call.res.B # {}

\* ------------------------------------------------------------------------
\* Concurrent requests of one rater
\* ------------------------------------------------------------------------

\* C29: the cursor is not serialized across the concurrent requests of one
\* rater.  When the browser stores the cookie of an accepted submission, the
\* cursor of that module is the cursor the request was sent with plus one,
\* whatever the rater's other requests did meanwhile; and a step changes the
\* session of a rater only if it is that rater's own request or cookie.
C29_CursorRaceWithinRater ==
    [][/\ \A t \in Tabs :
             (tabs[t].pc = "answered" /\ tabs'[t].pc = "idle")
                => session'[tabs[t].rater].plan_idx[tabs[t].form.kind] = tabs[t].sent + 1
       /\ \A r \in Raters :
             session'[r] # session[r]
                => \/ \E t \in Tabs : /\ tabs[t].rater = r
                                      /\ tabs[t].pc = "answered"
                                      /\ tabs'[t].pc = "idle"
                   \/ ev'.rater = r /\ tabs' = tabs]_vars

\* two submissions of one rater for the same task were both accepted and
\* recorded, and the cursor of that module moved from 0 to 1
C29_Witness ==
    /\ \A t \in Tabs : tabs[t].pc = "idle"
    /\ \E x, y \in responses_a :
          /\ x.id = 1 /\ y.id = 2
          /\ x.rater_id = "r1" /\ y.rater_id = "r1"
          /\ [x EXCEPT !.id = 0] = [y EXCEPT !.id = 0]
    /\ Cardinality(responses_a) = 2
    /\ session["r1"].plan_idx.A = 1
    /\ session["r2"].plan_idx.A = 0 /\ "plan" \in session["r2"].keys

\* ------------------------------------------------------------------------
\* Configuration at reload
\* ------------------------------------------------------------------------

\* C30: a pool rebuild triggered by admin_reload uses the configuration as it
\* is at reload time.  When a reload completes, every C set of the rebuilt
\* pool has one entry per seed label that config.yaml holds at that moment,
\* in the order of the file.
C30_ReloadReadsConfig ==
    [][(bt.pc # "idle" /\ bt'.pc = "idle" /\ ev'.op = "admin_reload" /\ ev'.out = "ok")
          => \A i \in 1..Len(C_SETS') :
                /\ Len(C_SETS'[i][4]) = Len(cfgfile.seed_labels)
                /\ \A j \in 1..Len(C_SETS'[i][4]) :
                      j <= Len(cfgfile.seed_labels)
                          => C_SETS'[i][4][j].seed_label = cfgfile.seed_labels[j]]_vars

\* ------------------------------------------------------------------------
\* Session invariants
\* ------------------------------------------------------------------------

\* C31: in every session that holds a plan, the cursor of each module is at
\* least 0 and at most the length of that module's plan.
C31_CursorWithinPlan ==
    \A r \in Raters :
        "plan" \in session[r].keys
            => \A m \in Modules :
                  /\ 0 <= session[r].plan_idx[m]
                  /\ session[r].plan_idx[m] <= Len(session[r].plan[m])

\* the session keys sample_plan_for_rater writes together
PlanKeys == {"plan", "plan_idx", "plan_sizes"}

\* C32: in every session, plan, plan_idx and plan_sizes are all present or
\* all absent, and when present plan_sizes[M] is the length of plan[M] for
\* every module M.
C32_PlanKeysTogether ==
    \A r \in Raters :
        /\ session[r].keys \cap PlanKeys \in {{}, PlanKeys}
        /\ "plan" \in session[r].keys
              => \A m \in Modules : session[r].plan_sizes[m] = Len(session[r].plan[m])

\* C33: a module cannot complete with an unanswered task.  While the seen
\* history is never cleared, whenever the cursor of a module has reached the
\* length of its plan, the rater's seen set of that module holds the key of
\* every task of that plan.
C33_CompleteMeansAllSeen ==
    \A r \in Raters : \A m \in Modules :
        ("plan" \in session[r].keys /\ session[r].plan_idx[m] >= Len(session[r].plan[m]))
            => \A i \in 1..Len(session[r].plan[m]) :
                  PlanKey(session[r].plan, m, i) \in SeenOf(m, r)

\* ------------------------------------------------------------------------
\* The drawn plan
\* ------------------------------------------------------------------------

\* C34: within one drawn plan no two tasks of the same module have the same
\* task key, whatever rows the manifests hold.
C34_PlanKeysDistinct ==
    call.fn = "sample_plan_for_rater"
        => \A m \in Modules : \A i, j \in 1..Len(call.res[m]) :
              i # j => PlanKey(call.res, m, i) # PlanKey(call.res, m, j)

\* ------------------------------------------------------------------------
\* Initialisation
\* ------------------------------------------------------------------------

\* the threads inside the with _init_lock block
InsideInit == {t \in Threads : boot.pc[t] \in {"check", "init_db", "rows", "sets", "flag",
                                                "release"}}

\* the threads whose request handler is running or has run
Handled == {t \in Threads : boot.pc[t] \in {"handler", "done"}}

Stored(plan) ==
    [A |-> SlimRows(plan.A),
     B |-> plan.B,
     C |-> [i \in 1..Len(plan.C) |->
               <<plan.C[i][1], plan.C[i][2], plan.C[i][3], SlimRows(plan.C[i][4])>>]]

\* the page that presents a task of module m
PageOf(m) ==
    CASE m = "A" -> "page:module_a.html" [] m = "B" -> "page:module_b.html"
      [] OTHER -> "page:module_c.html"

\* C36: every plan draw replaces the plans of all three modules together and
\* sets all three cursors to 0; start_full_session always draws, whatever
\* plan and cursors the session held; and a draw adds nothing to the seen
\* sets, so a task of the discarded plan that was presented and not yet
\* submitted is still unseen after the draw.
C36_DrawReplacesWholePlan ==
    [][\A r \in Raters :
          (requests' = requests + 1 /\ ev'.rater = r)
             => /\ ev'.op = "start_full_session" => ev'.drew
                /\ ev'.drew
                     => /\ PlanKeys \subseteq session'[r].keys
                        /\ session'[r].plan_idx = ZeroIdx
                        /\ \A m \in Modules :
                              /\ Len(session'[r].plan[m])
                                    = Min(MODULE_ITEMS[m], UnseenCount(m, r))
                              /\ \A i \in 1..Len(session'[r].plan[m]) :
                                    PlanKey(session'[r].plan, m, i) \notin SeenOf(m, r)
                              /\ session'[r].plan_sizes[m] = Len(session'[r].plan[m])
                        /\ \A m \in Modules : SeenOf(m, r)' = SeenOf(m, r)
                        /\ \A m \in Modules :
                              (/\ browser[r].loc = PageOf(m)
                               /\ browser[r].form.kind = m
                               /\ browser[r].form.task \notin SeenOf(m, r))
                                 => browser[r].form.task \notin SeenOf(m, r)']_vars

\* a rater with a module A page open, whose task was never submitted, asked
\* for a full session: the plan was drawn anew, the cursors are 0 and the
\* open task is not in the seen set
C36_Witness ==
    /\ ev.op = "start_full_session" /\ ev.rater = "r1" /\ ev.drew
    /\ browser["r1"].form.kind = "A"
    /\ browser["r1"].form.task \notin SEEN_A["r1"]
    /\ session["r1"].plan_idx = ZeroIdx
    /\ session["r1"].plan.A # <<>>

\* ------------------------------------------------------------------------
\* The full session ends
\* ------------------------------------------------------------------------

\* C37: from any session state in full mode, a rater who keeps following
\* the redirects and answers every task page with a valid submission
\* eventually reaches the thanks page.
C37_FullSessionReachesThanks ==
    \A r \in Visitors : chain[r] ~> (browser[r].loc = "page:thanks.html")

\* a rater who went about freely, then followed the full session through a
\* task of every module, is at the thanks page
C37_Witness ==
    /\ chain["r1"]
    /\ requests = MaxFreeRequests
    /\ browser["r1"].loc = "page:thanks.html"
    /\ Len(log["r1"]) >= 4
    /\ ~FullMode(session["r1"])

\* ------------------------------------------------------------------------
\* The two clears and the session
\* ------------------------------------------------------------------------

\* C38: admin_clear_seen_all leaves every session as it is; admin_clear_seen_me
\* removes plan, plan_idx and plan_sizes from the requesting session and
\* nothing else from it; and the module entry that rater makes next draws a
\* new plan from the pools with nothing filtered out.
C38_ClearAllKeepsClearMeDrops ==
    [][requests' = requests + 1
          => /\ ev'.op = "admin_clear_seen_all" => session' = session
             /\ \A r \in Raters :
                   (ev'.op = "admin_clear_seen_me" /\ ev'.rater = r)
                      => /\ session'[r].keys = session[r].keys \ PlanKeys
                         /\ \A x \in Raters \ {r} : session'[x] = session[x]
             /\ \A r \in Raters :
                   (/\ ev.op = "admin_clear_seen_me" /\ ev.rater = r
                    /\ ev'.op \in EnterOps /\ ev'.rater = r)
                      => /\ ev'.drew
                         /\ UnseenA(r) = ALL_A_IMAGES
                         /\ UnseenB(r) = DOMAIN B_SETS
                         /\ UnseenC(r) = C_SETS
                         /\ session'[r].plan \in {Stored(p) : p \in Plans(r)}
                         /\ session'[r].plan_idx = ZeroIdx]_vars

\* a rater who had a module A page open cleared their own history and then
\* started a module: the session holds a newly drawn plan
C38_Witness ==
    /\ ev.op = "start_module" /\ ev.rater = "r1" /\ ev.drew
    /\ requests = 3
    /\ browser["r1"].form.kind = "A"
    /\ PlanKeys \subseteq session["r1"].keys
    /\ session["r1"].plan.A # <<>>
    /\ SEEN_A["r1"] = {}

====
